---- MODULE Spec2Model ----
(***************************************************************************)
(* Model of csort: classification of class members (method_describers.py), *)
(* the decorator model and the auto-static rewriter (decorators.py), the   *)
(* sort of a class body and the per-file pipeline (formatting.py) on the   *)
(* two parse back-ends (ast_functions.py, cst_functions.py).               *)
(*                                                                         *)
(* Python strings are TLA+ strings; Chars gives each string's code points, *)
(* and startswith, endswith, "in" and "<" are computed on the code points. *)
(* A raised exception is a value: a record with a non-empty "raised".      *)
(***************************************************************************)
EXTENDS Integers, Sequences, FiniteSets, TLC

VARIABLES
    parser,          \* "ast" or "cst": the back-end module main() imports
    config,          \* the configuration: [order, use_csort_group]
    auto_static,     \* the auto_static argument of format_csort
    describer,       \* the MethodDescriber: [built, method_checking_map, instance_method_default]
    loaded,          \* history: the configuration as the loader returned it
    method,          \* the member handed to get_method_type / describe_method / _staticise
    classified,      \* what get_method_type(method) returned
    described,       \* what describe_method(method) returned
    methods,         \* the member list handed to order_class_functions
    sorted_methods,  \* what order_class_functions(methods) returned
    permuted,        \* a permutation of methods
    sorted_permuted, \* what order_class_functions(permuted) returned
    staticised,      \* what StaticMethodChecker._staticise(method) returned
    static_method_count, \* the checker's static_method_count
    file,            \* the classes of the module at file_path, in source order
    output_py,       \* the output_py argument of format_csort: a path or None
    response,        \* outcome of format_csort(file_path): response, text, write
    response_again,  \* outcome of format_csort on the text the first run wrote
    params,          \* the parsed command line of main()
    disk,            \* what is at the input path, and the config files of the working directory
    paths,           \* what validate_paths returned: (py_scripts, outputs)
    processed,       \* how many scripts of the batch main() has handed to format_csort
    written,         \* the output paths written so far
    loader,          \* what get_config_loader returned
    kwargs,          \* the extra command-line arguments, as parse_commandline returns them
    written_as,      \* the decorator expression handed to get_decorator_id
    decorator_id,    \* what get_decorator_id(decorator) returned
    orders,          \* the module-level table decorator_orders
    names,           \* the decorator names handed to order_decorators
    ordered,         \* what order_decorators(names) returned
    calls,           \* how many calls of order_decorators there have been
    source_code,     \* the text handed to handle_edge_cases, as code points
    repaired,        \* what handle_edge_cases(source_code) returned
    updated,         \* what update_config returned for the configuration and kwargs
    pc               \* position of the driver

env_vars == <<parser, auto_static, loaded>>
member_vars == <<method, classified, described>>
order_vars == <<methods, sorted_methods, permuted, sorted_permuted>>
static_vars == <<staticised, static_method_count>>
file_vars == <<file, output_py, response, response_again>>
main_vars == <<params, disk, paths, processed, written, loader, kwargs, updated>>
table_vars == <<orders, names, ordered, calls>>
text_vars == <<source_code, repaired>>
extra_vars == <<table_vars, text_vars>>
decorator_vars == <<written_as, decorator_id, extra_vars>>

vars == <<env_vars, config, describer, member_vars, order_vars, static_vars, file_vars, main_vars,
          decorator_vars, pc>>

-----------------------------------------------------------------------------
(* Strings *)

Chars ==
     "" :> <<>>
  @@ "__init__" :> <<95, 95, 105, 110, 105, 116, 95, 95>>
  @@ "_func" :> <<95, 102, 117, 110, 99>>
  @@ "bark" :> <<98, 97, 114, 107>>
  @@ "color_of_dog" :> <<99, 111, 108, 111, 114, 95, 111, 102, 95, 100, 111, 103>>
  @@ "describe" :> <<100, 101, 115, 99, 114, 105, 98, 101>>
  @@ "growling" :> <<103, 114, 111, 119, 108, 105, 110, 103>>
  @@ "run" :> <<114, 117, 110>>
  @@ "name" :> <<110, 97, 109, 101>>
  @@ "id" :> <<105, 100>>
  @@ "docstring" :> <<100, 111, 99, 115, 116, 114, 105, 110, 103>>
  @@ "Ellipsis" :> <<69, 108, 108, 105, 112, 115, 105, 115>>
  @@ "ellipsis" :> <<101, 108, 108, 105, 112, 115, 105, 115>>
  @@ "abstractmethod" :> <<97, 98, 115, 116, 114, 97, 99, 116, 109, 101, 116, 104, 111, 100>>
  @@ "cache" :> <<99, 97, 99, 104, 101>>
  @@ "classmethod" :> <<99, 108, 97, 115, 115, 109, 101, 116, 104, 111, 100>>
  @@ "csort_group" :> <<99, 115, 111, 114, 116, 95, 103, 114, 111, 117, 112>>
  @@ "getter" :> <<103, 101, 116, 116, 101, 114>>
  @@ "lru_cache" :> <<108, 114, 117, 95, 99, 97, 99, 104, 101>>
  @@ "property" :> <<112, 114, 111, 112, 101, 114, 116, 121>>
  @@ "setter" :> <<115, 101, 116, 116, 101, 114>>
  @@ "staticmethod" :> <<115, 116, 97, 116, 105, 99, 109, 101, 116, 104, 111, 100>>
  @@ "wraps" :> <<119, 114, 97, 112, 115>>
  @@ "self" :> <<115, 101, 108, 102>>
  @@ "x" :> <<120>>
  @@ "cls" :> <<99, 108, 115>>
  @@ "return 1" :> <<114, 101, 116, 117, 114, 110, 32, 49>>
  @@ "return self.x" :> <<114, 101, 116, 117, 114, 110, 32, 115, 101, 108, 102, 46, 120>>
  @@ "return myself" :> <<114, 101, 116, 117, 114, 110, 32, 109, 121, 115, 101, 108, 102>>
  @@ "\"\"\"d\"\"\"" :> <<34, 34, 34, 100, 34, 34, 34>>
  @@ "'''" :> <<39, 39, 39>>
  @@ "\"\"\"" :> <<34, 34, 34>>
  @@ "'d'" :> <<39, 100, 39>>
  @@ "1" :> <<49>>
  @@ "..." :> <<46, 46, 46>>
  @@ "_" :> <<95>>
  @@ "__" :> <<95, 95>>
  @@ "describe_" :> <<100, 101, 115, 99, 114, 105, 98, 101, 95>>
  @@ "movement" :> <<109, 111, 118, 101, 109, 101, 110, 116>>
  @@ "sound" :> <<115, 111, 117, 110, 100>>
  @@ "wag" :> <<119, 97, 103>>
  @@ "walk" :> <<119, 97, 108, 107>>
  @@ "whimper" :> <<119, 104, 105, 109, 112, 101, 114>>
  @@ "src" :> <<115, 114, 99>>
  @@ "src/a.py" :> <<115, 114, 99, 47, 97, 46, 112, 121>>
  @@ "src/b.py" :> <<115, 114, 99, 47, 98, 46, 112, 121>>
  @@ "src/sub/a.py" :> <<115, 114, 99, 47, 115, 117, 98, 47, 97, 46, 112, 121>>
  @@ "a.py" :> <<97, 46, 112, 121>>
  @@ "b.py" :> <<98, 46, 112, 121>>
  @@ "sub" :> <<115, 117, 98>>
  @@ "out" :> <<111, 117, 116>>
  @@ "out.py" :> <<111, 117, 116, 46, 112, 121>>
  @@ "out/a.py" :> <<111, 117, 116, 47, 97, 46, 112, 121>>
  @@ "out/b.py" :> <<111, 117, 116, 47, 98, 46, 112, 121>>
  @@ ".py" :> <<46, 112, 121>>
  @@ "csort.ini" :> <<99, 115, 111, 114, 116, 46, 105, 110, 105>>
  @@ "pyproject.toml" :> <<112, 121, 112, 114, 111, 106, 101, 99, 116, 46, 116, 111, 109, 108>>
  @@ "setup.cfg" :> <<115, 101, 116, 117, 112, 46, 99, 102, 103>>
  @@ "conf/csort.ini" :> <<99, 111, 110, 102, 47, 99, 115, 111, 114, 116, 46, 105, 110, 105>>
  @@ "csort" :> <<99, 115, 111, 114, 116>>
  @@ ".ini" :> <<46, 105, 110, 105>>
  @@ ".toml" :> <<46, 116, 111, 109, 108>>
  @@ ".cfg" :> <<46, 99, 102, 103>>
  @@ "/" :> <<47>>
  @@ "." :> <<46>>
  @@ "dunder_method" :> <<100, 117, 110, 100, 101, 114, 95, 109, 101, 116, 104, 111, 100>>
  @@ "dunder-method" :> <<100, 117, 110, 100, 101, 114, 45, 109, 101, 116, 104, 111, 100>>
  @@ "csort-group" :> <<99, 115, 111, 114, 116, 45, 103, 114, 111, 117, 112>>
  @@ "class_method" :> <<99, 108, 97, 115, 115, 95, 109, 101, 116, 104, 111, 100>>
  @@ "class-method" :> <<99, 108, 97, 115, 115, 45, 109, 101, 116, 104, 111, 100>>
  @@ "static_method" :> <<115, 116, 97, 116, 105, 99, 95, 109, 101, 116, 104, 111, 100>>
  @@ "static-method" :> <<115, 116, 97, 116, 105, 99, 45, 109, 101, 116, 104, 111, 100>>
  @@ "decorated_method" :> <<100, 101, 99, 111, 114, 97, 116, 101, 100, 95, 109, 101, 116, 104, 111, 100>>
  @@ "decorated-method" :> <<100, 101, 99, 111, 114, 97, 116, 101, 100, 45, 109, 101, 116, 104, 111, 100>>
  @@ "instance_method" :> <<105, 110, 115, 116, 97, 110, 99, 101, 95, 109, 101, 116, 104, 111, 100>>
  @@ "instance-method" :> <<105, 110, 115, 116, 97, 110, 99, 101, 45, 109, 101, 116, 104, 111, 100>>
  @@ "private_method" :> <<112, 114, 105, 118, 97, 116, 101, 95, 109, 101, 116, 104, 111, 100>>
  @@ "private-method" :> <<112, 114, 105, 118, 97, 116, 101, 45, 109, 101, 116, 104, 111, 100>>
  @@ "use_csort_group" :> <<117, 115, 101, 95, 99, 115, 111, 114, 116, 95, 103, 114, 111, 117, 112>>
  @@ "use-csort-group" :> <<117, 115, 101, 45, 99, 115, 111, 114, 116, 45, 103, 114, 111, 117, 112>>
  @@ "n_use_csort_group" :> <<110, 95, 117, 115, 101, 95, 99, 115, 111, 114, 116, 95, 103, 114, 111, 117, 112>>
  @@ "n-use-csort-group" :> <<110, 45, 117, 115, 101, 45, 99, 115, 111, 114, 116, 45, 103, 114, 111, 117, 112>>
  @@ "auto_static" :> <<97, 117, 116, 111, 95, 115, 116, 97, 116, 105, 99>>
  @@ "auto-static" :> <<97, 117, 116, 111, 45, 115, 116, 97, 116, 105, 99>>
  @@ "n_auto_static" :> <<110, 95, 97, 117, 116, 111, 95, 115, 116, 97, 116, 105, 99>>
  @@ "n-auto-static" :> <<110, 45, 97, 117, 116, 111, 45, 115, 116, 97, 116, 105, 99>>
  @@ "--private-method" :> <<45, 45, 112, 114, 105, 118, 97, 116, 101, 45, 109, 101, 116, 104, 111, 100>>
  @@ "--private_method" :> <<45, 45, 112, 114, 105, 118, 97, 116, 101, 95, 109, 101, 116, 104, 111, 100>>
  @@ "--dunder-method" :> <<45, 45, 100, 117, 110, 100, 101, 114, 45, 109, 101, 116, 104, 111, 100>>
  @@ "--property" :> <<45, 45, 112, 114, 111, 112, 101, 114, 116, 121>>
  @@ "--n-auto-static" :> <<45, 45, 110, 45, 97, 117, 116, 111, 45, 115, 116, 97, 116, 105, 99>>
  @@ "--n_auto_static" :> <<45, 45, 110, 95, 97, 117, 116, 111, 95, 115, 116, 97, 116, 105, 99>>
  @@ "--auto-static" :> <<45, 45, 97, 117, 116, 111, 45, 115, 116, 97, 116, 105, 99>>
  @@ "--auto_static" :> <<45, 45, 97, 117, 116, 111, 95, 115, 116, 97, 116, 105, 99>>
  @@ "--use_csort_group" :> <<45, 45, 117, 115, 101, 95, 99, 115, 111, 114, 116, 95, 103, 114, 111, 117, 112>>
  @@ "--n-use-csort-group" :> <<45, 45, 110, 45, 117, 115, 101, 45, 99, 115, 111, 114, 116, 45, 103, 114, 111, 117, 112>>
  @@ "jobs" :> <<106, 111, 98, 115>>
  @@ "--jobs" :> <<45, 45, 106, 111, 98, 115>>
  @@ "n-" :> <<110, 45>>
  @@ "n_" :> <<110, 95>>
  @@ "--" :> <<45, 45>>
  @@ "-" :> <<45>>
  @@ "True" :> <<84, 114, 117, 101>>
  @@ "False" :> <<70, 97, 108, 115, 101>>
  @@ "0" :> <<48>>
  @@ "2" :> <<50>>
  @@ "3" :> <<51>>
  @@ "4" :> <<52>>
  @@ "5" :> <<53>>
  @@ "6" :> <<54>>
  @@ "7" :> <<55>>
  @@ "8" :> <<56>>
  @@ "9" :> <<57>>
  @@ "10" :> <<49, 48>>
  @@ "11" :> <<49, 49>>
  @@ "12" :> <<49, 50>>
  @@ "13" :> <<49, 51>>
  @@ "14" :> <<49, 52>>
  @@ "\n" :> <<10>>
  @@ "\n\n\n" :> <<10, 10, 10>>
  @@ "@" :> <<64>>
  @@ "    " :> <<32, 32, 32, 32>>
  @@ "@wraps" :> <<64, 119, 114, 97, 112, 115>>
  @@ "def run(self):" :> <<100, 101, 102, 32, 114, 117, 110, 40, 115, 101, 108, 102, 41, 58>>
  @@ "if __name__ == '__main__'" :>
         <<105, 102, 32, 95, 95, 110, 97, 109, 101, 95, 95, 32, 61, 61, 32,
           39, 95, 95, 109, 97, 105, 110, 95, 95, 39>>
  @@ "if __name__ == '__main__':" :>
         <<105, 102, 32, 95, 95, 110, 97, 109, 101, 95, 95, 32, 61, 61, 32,
           39, 95, 95, 109, 97, 105, 110, 95, 95, 39, 58>>
  @@ "if __name__ == \"__main__\":" :>
         <<105, 102, 32, 95, 95, 110, 97, 109, 101, 95, 95, 32, 61, 61, 32,
           34, 95, 95, 109, 97, 105, 110, 95, 95, 34, 58>>

\* str.startswith, str.endswith, "p in s", and "a < b" of Python's str
startswith(s, p) ==
    /\ Len(Chars[p]) <= Len(Chars[s])
    /\ SubSeq(Chars[s], 1, Len(Chars[p])) = Chars[p]

endswith(s, p) ==
    /\ Len(Chars[p]) <= Len(Chars[s])
    /\ SubSeq(Chars[s], Len(Chars[s]) - Len(Chars[p]) + 1, Len(Chars[s])) = Chars[p]

str_contains(s, p) ==
    \E i \in 1..(Len(Chars[s]) - Len(Chars[p]) + 1) :
        SubSeq(Chars[s], i, i + Len(Chars[p]) - 1) = Chars[p]

IntSeqLt(s, t) ==
    \E i \in 1..(Len(s) + 1) :
        /\ i <= Len(t)
        /\ \A j \in 1..(i - 1) : s[j] = t[j]
        /\ (i = Len(s) + 1 \/ s[i] < t[i])

str_lt(a, b) == IntSeqLt(Chars[a], Chars[b])

\* "a < b" of two Python lists of str
list_lt(s, t) ==
    \E i \in 1..(Len(s) + 1) :
        /\ i <= Len(t)
        /\ \A j \in 1..(i - 1) : s[j] = t[j]
        /\ (i = Len(s) + 1 \/ str_lt(s[i], t[i]))

\* the str of a sequence of code points
str_of(chars) == CHOOSE s \in DOMAIN Chars : Chars[s] = chars

\* str.rfind(c) for a one-character c: the last index of c in s, 0 if none
rfind(s, c) ==
    IF \E i \in 1..Len(Chars[s]) : <<Chars[s][i]>> = Chars[c]
    THEN CHOOSE i \in 1..Len(Chars[s]) :
             /\ <<Chars[s][i]>> = Chars[c]
             /\ \A j \in (i + 1)..Len(Chars[s]) : <<Chars[s][j]>> # Chars[c]
    ELSE 0

\* s[k:] for a 0-based k
str_from(s, k) == str_of(SubSeq(Chars[s], k + 1, Len(Chars[s])))

\* pathlib: PurePath(path).name, PurePath(path).suffix, PurePath(a).joinpath(b).as_posix()
path_name(path) == str_from(path, rfind(path, "/"))

name_suffix(name, dot) ==
    IF dot > 1 /\ dot < Len(Chars[name]) THEN str_from(name, dot - 1) ELSE ""

path_suffix(path) == name_suffix(path_name(path), rfind(path_name(path), "."))

joinpath(a, b) == str_of(Chars[a] \o Chars["/"] \o Chars[b])

\* list.remove(x): the list without the first occurrence of x
list_remove(s, x) ==
    LET i == CHOOSE k \in 1..Len(s) : s[k] = x /\ \A j \in 1..(k - 1) : s[j] # x
    IN  SubSeq(s, 1, i - 1) \o SubSeq(s, i + 1, Len(s))

list_in(x, s) == \E i \in 1..Len(s) : s[i] = x

\* list.insert(k, x) on a copy
insert_at(s, x, k) == SubSeq(s, 1, k) \o <<x>> \o SubSeq(s, k + 1, Len(s))

\* [s[i] : i kept] in order
RECURSIVE SelectIdx(_, _, _)
SelectIdx(s, keep, i) ==
    IF i > Len(s) THEN <<>>
    ELSE (IF i \in keep THEN <<s[i]>> ELSE <<>>) \o SelectIdx(s, keep, i + 1)

-----------------------------------------------------------------------------
(* configs.py *)

DUNDER_PATTERN == "__"
INSTANCE_METHOD_LEVEL == 11
DOCSTRING_NAME == "docstring"

\* an ordered mapping (dict, configparser section) is a sequence of [key, value]
Entry(k, v) == [key |-> k, value |-> v]

DEFAULT_CSORT_ORDER_PARAMS ==
    << Entry("dunder_method", 3), Entry("csort_group", 4), Entry("class_method", 5),
       Entry("static_method", 6), Entry("property", 7), Entry("getter", 8),
       Entry("setter", 9), Entry("decorated_method", 10), Entry("instance_method", 11),
       Entry("private_method", 12) >>

dict_has(d, k) == \E i \in 1..Len(d) : d[i].key = k
dict_get(d, k) == d[CHOOSE i \in 1..Len(d) : d[i].key = k].value
dict_pop(d, k) == SelectIdx(d, {i \in 1..Len(d) : d[i].key # k}, 1)
\* d[k] = v: an existing key keeps its position
dict_set(d, k, v) ==
    IF dict_has(d, k) THEN [i \in 1..Len(d) |-> IF d[i].key = k THEN Entry(k, v) ELSE d[i]]
    ELSE Append(d, Entry(k, v))

-----------------------------------------------------------------------------
(* Syntax tree nodes.  One record shape for every class-body statement:    *)
(*   type            the statement's node type                              *)
(*   name            def name / assignment target                           *)
(*   decorator_list  decorators, in source order                            *)
(*   args            positional parameter names                             *)
(*   body            text of the function body                              *)
(*   value           text of an expression statement / assigned value       *)

Decorator(shape, ident, arg) == [shape |-> shape, ident |-> ident, arg |-> arg]
DName(n) == Decorator("Name", n, "")
DAttr(n) == Decorator("Attribute", n, "")
DCall(n, a) == Decorator("Call", n, a)

Node(t, n, d, a, b, v) ==
    [type |-> t, name |-> n, decorator_list |-> d, args |-> a, body |-> b, value |-> v]
FunctionDef(n, d, a, b) == Node("FunctionDef", n, d, a, b, "")
AsyncFunctionDef(n, d, a, b) == Node("AsyncFunctionDef", n, d, a, b, "")
AnnAssign(n, v) == Node("AnnAssign", n, <<>>, <<>>, "", v)
Assign(n, v) == Node("Assign", n, <<>>, <<>>, "", v)
Expr(v) == Node("Expr", "", <<>>, <<>>, "", v)
Pass == Node("Pass", "", <<>>, <<>>, "", "")
ClassDef(n) == Node("ClassDef", n, <<>>, <<>>, "", "")

\* libcst parses "async def" to a FunctionDef node; ast to an AsyncFunctionDef
is_FunctionDef(p, node) ==
    IF p = "ast" THEN node.type = "FunctionDef"
    ELSE node.type \in {"FunctionDef", "AsyncFunctionDef"}

-----------------------------------------------------------------------------
(* decorators.py *)

NoRaise == ""
Ok(v) == [raised |-> NoRaise, value |-> v]
Raise(e) == [raised |-> e, value |-> 0]

\* Optional[List[str]]
NoneList == [isNone |-> TRUE, items |-> <<>>]
SomeList(l) == [isNone |-> FALSE, items |-> l]

decorator_orders(dec) ==
    CASE dec = "classmethod" -> 0
      [] dec = "staticmethod" -> 1
      [] dec = "property" -> 2
      [] dec = "getter" -> 3
      [] dec = "setter" -> 4
      [] OTHER -> 5

get_decorator_id(decorator) == decorator.ident

_get_decorator_order_lt(a, b) ==
    \/ decorator_orders(a) < decorator_orders(b)
    \/ decorator_orders(a) = decorator_orders(b) /\ str_lt(a, b)

\* sorted(decorators, key=_get_decorator_order) is stable: d, the next element
\* of the input, goes after every element of the sorted prefix that is not greater
insert_decorator(sorted_prefix, d) ==
    insert_at(sorted_prefix, d,
              Cardinality({i \in 1..Len(sorted_prefix) :
                              ~_get_decorator_order_lt(d, sorted_prefix[i])}))

RECURSIVE order_decorators(_)
order_decorators(decorators) ==
    IF decorators = <<>> THEN <<>>
    ELSE insert_decorator(order_decorators(SubSeq(decorators, 1, Len(decorators) - 1)),
                          decorators[Len(decorators)])

\* DecoratorDefaultDict after the module-level loop: five entries
DecoratorDefaultDict ==
    << Entry("classmethod", 0), Entry("staticmethod", 1), Entry("property", 2),
       Entry("getter", 3), Entry("setter", 4) >>

Lookup(value, table) == [value |-> value, table |-> table]

\* the __missing__ of defaultdict: the key is stored with the default
missing_stores(table, key) == Lookup(Len(table), Append(table, Entry(key, Len(table))))

\* DecoratorDefaultDict.__missing__: len(self), and the key is not stored
__missing__(table, key) == Lookup(Len(table), table)

\* decorator_orders[decorator]
orders_getitem(table, key) ==
    IF dict_has(table, key) THEN Lookup(dict_get(table, key), table) ELSE __missing__(table, key)

\* "a < b" of two keys (level, name)
order_key_lt(a, b) == a[1] < b[1] \/ (a[1] = b[1] /\ str_lt(a[2], b[2]))

insert_order_key(sorted_prefix, k) ==
    insert_at(sorted_prefix, k,
              Cardinality({i \in 1..Len(sorted_prefix) : ~order_key_lt(k, sorted_prefix[i])}))

RECURSIVE sorted_order_keys(_)
sorted_order_keys(keys) ==
    IF keys = <<>> THEN <<>>
    ELSE insert_order_key(sorted_order_keys(SubSeq(keys, 1, Len(keys) - 1)), keys[Len(keys)])

\* sorted(decorators, key=_get_decorator_order) against the table: the key of
\* every name is looked up, first name first, then the names are sorted by key
RECURSIVE order_decorators_from(_, _, _, _), order_decorators_keyed(_, _, _, _)
order_decorators_from(table, decorators, i, keys) ==
    IF i > Len(decorators)
    THEN Lookup([j \in 1..Len(keys) |-> sorted_order_keys(keys)[j][2]], table)
    ELSE order_decorators_keyed(orders_getitem(table, decorators[i]), decorators, i, keys)

order_decorators_keyed(r, decorators, i, keys) ==
    order_decorators_from(r.table, decorators, i + 1, Append(keys, <<r.value, decorators[i]>>))

decorator_ids(node) ==
    [i \in 1..Len(node.decorator_list) |-> get_decorator_id(node.decorator_list[i])]

get_decorators(p, node, sort) ==
    IF ~is_FunctionDef(p, node) THEN NoneList
    ELSE IF sort THEN SomeList(order_decorators(decorator_ids(node)))
    ELSE SomeList(decorator_ids(node))

\* "decorators is not None and decorator in decorators"
opt_list_in(decorator, decorators) ==
    ~decorators.isNone /\ list_in(decorator, decorators.items)

has_decorator(p, node, decorator) ==
    opt_list_in(decorator, get_decorators(p, node, FALSE))

-----------------------------------------------------------------------------
(* utilities.py: names and the structural predicates *)

TRIPLE_DOUBLE == "\"\"\""
TRIPLE_SINGLE == "'''"

is_triple_quoted(s) ==
    \/ startswith(s, TRIPLE_DOUBLE) /\ endswith(s, TRIPLE_DOUBLE)
    \/ startswith(s, TRIPLE_SINGLE) /\ endswith(s, TRIPLE_SINGLE)

\* AST: any node with a value attribute whose value is the constant Ellipsis
is_ellipsis(node) ==
    /\ node.type \in {"Expr", "Assign", "AnnAssign"}
    /\ node.value = "..."

\* CST: a simple statement line holding an expression that is an Ellipsis
is_ellipsis_cst(node) ==
    /\ node.type = "Expr"
    /\ node.value = "..."

\* AST: the text astor renders for the statement starts and ends with triple quotes
is_class_docstring(node) ==
    /\ node.type = "Expr"
    /\ is_triple_quoted(node.value)

is_class_docstring_cst(node) ==
    /\ node.type = "Expr"
    /\ is_triple_quoted(node.value)

get_ellipsis_name(p, node) == IF p = "cst" THEN "ellipsis" ELSE "Ellipsis"

get_expression_name_ast(node) ==
    IF is_ellipsis(node) /\ node.type = "Expr" THEN Ok(get_ellipsis_name("ast", node))
    ELSE IF is_class_docstring(node) /\ node.type = "Expr" THEN Ok(DOCSTRING_NAME)
    ELSE IF node.type \in {"FunctionDef", "AnnAssign", "Assign"} THEN Ok(node.name)
    ELSE Raise("KeyError")

get_expression_name_cst(node) ==
    IF is_ellipsis_cst(node) THEN Ok(get_ellipsis_name("cst", node))
    ELSE IF is_class_docstring_cst(node) THEN Ok(DOCSTRING_NAME)
    ELSE IF node.type \in {"FunctionDef", "AsyncFunctionDef", "AnnAssign", "Assign"}
         THEN Ok(node.name)
    ELSE Raise("KeyError")

get_expression_name(p, node) ==
    IF p = "ast" THEN get_expression_name_ast(node) ELSE get_expression_name_cst(node)

-----------------------------------------------------------------------------
(* ast_functions.py, cst_functions.py, generic_functions.py: predicates *)

AST_has_name(node) == node.type \in {"FunctionDef", "AsyncFunctionDef", "ClassDef"}
CST_has_name(node) == node.type \in {"FunctionDef", "AsyncFunctionDef", "ClassDef"}

AST_is_dunder_method(node) ==
    startswith(node.name, DUNDER_PATTERN) /\ endswith(node.name, DUNDER_PATTERN)

CST_is_dunder_method(node) ==
    /\ CST_has_name(node)
    /\ startswith(node.name, DUNDER_PATTERN) /\ endswith(node.name, DUNDER_PATTERN)

AST_is_private_method(node) == startswith(node.name, "_") /\ ~AST_is_dunder_method(node)

CST_is_private_method(node) == startswith(node.name, "_")

\* "decorators is not None and len(decorators) > 0"
opt_list_nonempty(decorators) == ~decorators.isNone /\ Len(decorators.items) > 0

is_decorated(p, node) == opt_list_nonempty(get_decorators(p, node, FALSE))

is_csort_group(p, node) == has_decorator(p, node, "csort_group")
is_class_method(p, node) == has_decorator(p, node, "classmethod")
is_static_method(p, node) == has_decorator(p, node, "staticmethod")
is_property(p, node) == has_decorator(p, node, "property")
is_setter(p, node) == has_decorator(p, node, "setter")
is_getter(p, node) == has_decorator(p, node, "getter")

\* func(node) raises AttributeError: the predicate reads node.name unguarded
func_raises(p, func, node) ==
    \/ p = "ast" /\ func \in {"is_dunder_method", "is_private_method"} /\ ~AST_has_name(node)
    \/ p = "cst" /\ func = "is_private_method" /\ ~CST_has_name(node)

\* func(node), for a func that does not raise on node
func_holds(p, func, node) ==
    CASE func = "is_ellipsis" -> IF p = "ast" THEN is_ellipsis(node) ELSE is_ellipsis_cst(node)
      [] func = "is_class_docstring" ->
            IF p = "ast" THEN is_class_docstring(node) ELSE is_class_docstring_cst(node)
      [] func = "is_annotated_class_attribute" -> node.type = "AnnAssign"
      [] func = "is_class_attribute" -> node.type = "Assign"
      [] func = "is_dunder_method" ->
            IF p = "ast" THEN AST_is_dunder_method(node) ELSE CST_is_dunder_method(node)
      [] func = "is_private_method" ->
            IF p = "ast" THEN AST_is_private_method(node) ELSE CST_is_private_method(node)
      [] func = "is_decorated" -> is_decorated(p, node)
      [] func = "is_csort_group" -> is_csort_group(p, node)
      [] func = "is_class_method" -> is_class_method(p, node)
      [] func = "is_static_method" -> is_static_method(p, node)
      [] func = "is_property" -> is_property(p, node)
      [] func = "is_getter" -> is_getter(p, node)
      [] func = "is_setter" -> is_setter(p, node)

is_csortable(p, node) ==
    \/ is_FunctionDef(p, node)
    \/ (IF p = "ast" THEN is_ellipsis(node) ELSE is_ellipsis_cst(node))
    \/ node.type = "AnnAssign"
    \/ node.type = "Assign"
    \/ (IF p = "ast" THEN is_class_docstring(node) ELSE is_class_docstring_cst(node))

-----------------------------------------------------------------------------
(* method_describers.py *)

Pair(f, l) == [func |-> f, level |-> l]

_setup_config_to_func_map ==
    << Entry("dunder_method", "is_dunder_method"), Entry("csort_group", "is_csort_group"),
       Entry("class_method", "is_class_method"), Entry("static_method", "is_static_method"),
       Entry("property", "is_property"), Entry("getter", "is_getter"),
       Entry("setter", "is_setter"), Entry("decorated_method", "is_decorated"),
       Entry("private_method", "is_private_method") >>

_non_method_defaults ==
    << Pair("is_ellipsis", 0), Pair("is_class_docstring", 0),
       Pair("is_annotated_class_attribute", 1), Pair("is_class_attribute", 2) >>

\* the mapping left in the order it was filled in
insertion_order(mapping) == mapping

\* sorted(mapping, key=lambda t: t[1]) is stable: t, the next item of the input,
\* goes after every item of the sorted prefix whose level is not greater
insert_by_level(sorted_prefix, t) ==
    insert_at(sorted_prefix, t,
              Cardinality({i \in 1..Len(sorted_prefix) : sorted_prefix[i].level <= t.level}))

RECURSIVE sorted_by_level(_)
sorted_by_level(mapping) ==
    IF mapping = <<>> THEN <<>>
    ELSE insert_by_level(sorted_by_level(SubSeq(mapping, 1, Len(mapping) - 1)),
                         mapping[Len(mapping)])

\* the mapping with no default appended
without_defaults(mapping, i) == mapping

\* the defaults appended for the method types the mapping lacks, in table order
RECURSIVE add_defaults(_, _)
add_defaults(mapping, i) ==
    IF i > Len(DEFAULT_CSORT_ORDER_PARAMS) THEN mapping
    ELSE LET method_type == DEFAULT_CSORT_ORDER_PARAMS[i].key
             value == DEFAULT_CSORT_ORDER_PARAMS[i].value
         IN  IF method_type = "instance_method" THEN add_defaults(mapping, i + 1)
             ELSE LET f == dict_get(_setup_config_to_func_map, method_type)
                  IN  IF \E j \in 1..Len(mapping) : mapping[j].func = f
                      THEN add_defaults(mapping, i + 1)
                      ELSE add_defaults(Append(mapping, Pair(f, value)), i + 1)

\* configs.pop("instance_method"): the section without that entry
no_instance(order) == dict_pop(order, "instance_method")

\* Returns the map, the order section after the pop, and the default it set on self
_setup_func_to_level_map(cfg) ==
    LET configs == no_instance(cfg.order)
        user == [i \in 1..Len(configs) |->
                    Pair(dict_get(_setup_config_to_func_map, configs[i].key), configs[i].value)]
        mapping == add_defaults(_non_method_defaults \o user, 1)
    IN  [ func_to_value_map |-> sorted_by_level(mapping),
          configs |-> configs,
          set_default |-> dict_has(cfg.order, "instance_method"),
          instance_method_default |->
              IF dict_has(cfg.order, "instance_method")
              THEN dict_get(cfg.order, "instance_method") ELSE INSTANCE_METHOD_LEVEL ]

\* MethodDescriber.__init__: the map is built (which may set the default from
\* the configuration), and then the default is assigned the compiled-in level
MethodDescriber_init(cfg) ==
    LET built == _setup_func_to_level_map(cfg)
    IN  [ built |-> TRUE,
          method_checking_map |-> built.func_to_value_map,
          instance_method_default |-> INSTANCE_METHOD_LEVEL ]

use_csort_group(cfg) == cfg.use_csort_group

\* one turn of the loop stops it: the entry is not skipped, and func(method)
\* raises or is true
entry_hits(p, func, node, use_group) ==
    /\ ~(func = "is_csort_group" /\ ~use_group)
    /\ (func_raises(p, func, node) \/ func_holds(p, func, node))

\* the loop over the map from its i-th entry: the index where it stops, or 0
RECURSIVE first_hit(_, _, _, _, _)
first_hit(p, map, node, use_group, i) ==
    IF i > Len(map) THEN 0
    ELSE IF entry_hits(p, map[i].func, node, use_group) THEN i
    ELSE first_hit(p, map, node, use_group, i + 1)

\* what the loop leaves with when it stopped at entry i (0: it ran to the end)
level_at(p, d, node, i) ==
    IF i = 0 THEN Ok(d.instance_method_default)
    ELSE IF func_raises(p, d.method_checking_map[i].func, node) THEN Raise("AttributeError")
    ELSE Ok(d.method_checking_map[i].level)

get_method_type(p, d, node, use_group) ==
    level_at(p, d, node, first_hit(p, d.method_checking_map, node, use_group, 1))

Key(l, s, decs, n) == [level |-> l, second_level |-> s, decorators |-> decs, name |-> n]

\* the condition of describe_method's branch
is_grouped(decorators, cfg) == opt_list_in("csort_group", decorators) /\ use_csort_group(cfg)

\* the decorators describe_method returns: decorators.remove("csort_group") in the branch
key_decorators(decorators, grouped) ==
    IF grouped THEN SomeList(list_remove(decorators.items, "csort_group")) ELSE decorators

\* the return statement, or the first exception of the three calls before it
describe_result(name, level, second_level, decorators) ==
    IF name.raised # NoRaise THEN Raise(name.raised)
    ELSE IF level.raised # NoRaise THEN Raise(level.raised)
    ELSE IF second_level.raised # NoRaise THEN Raise(second_level.raised)
    ELSE Ok(Key(level.value, second_level.value, decorators, name.value))

describe_branch(p, d, node, name, level, decorators, grouped) ==
    describe_result(name, level,
                    IF grouped THEN get_method_type(p, d, node, FALSE) ELSE level,
                    key_decorators(decorators, grouped))

describe_decorated(p, d, cfg, node, decorators) ==
    describe_branch(p, d, node, get_expression_name(p, node),
                    get_method_type(p, d, node, use_csort_group(cfg)),
                    decorators, is_grouped(decorators, cfg))

describe_method(p, d, cfg, node) ==
    describe_decorated(p, d, cfg, node, get_decorators(p, node, TRUE))

-----------------------------------------------------------------------------
(* Inputs *)

MaxDecorators == 2

DecoratorPool ==
    { DCall("csort_group", "sound"), DName("staticmethod"), DName("classmethod"),
      DName("property"), DAttr("setter"), DName("lru_cache"), DName("abstractmethod") }

RECURSIVE SeqsUpTo(_, _)
SeqsUpTo(S, n) ==
    IF n = 0 THEN {<<>>}
    ELSE LET shorter == SeqsUpTo(S, n - 1)
         IN  shorter \cup {Append(q, x) : q \in shorter, x \in S}

DecoratorLists == SeqsUpTo(DecoratorPool, MaxDecorators)

MethodNames == {"__init__", "_func", "run"}

StatementPool ==
    { AnnAssign("name", "'d'"), Assign("id", "1"), Assign("id", "..."), Expr("..."),
      Expr("\"\"\"d\"\"\""), Expr("'d'"), Pass, ClassDef("name"),
      AsyncFunctionDef("run", <<>>, <<"self">>, "return 1") }

FunctionPool ==
    { FunctionDef(n, d, <<"self">>, "return self.x") : n \in MethodNames, d \in DecoratorLists }

MemberPool == FunctionPool \cup StatementPool

\* the order section as the config loader fills it, the empty section, the
\* section of the unit tests, the command-line override of the integration
\* test, and single overrides
MockOrder ==
    << Entry("dunder_method", 3), Entry("csort_group", 4), Entry("class_method", 5),
       Entry("static_method", 6), Entry("property", 7), Entry("decorated_method", 10),
       Entry("instance_method", 12), Entry("private_method", 13) >>

OverrideOrder ==
    dict_set(dict_set(DEFAULT_CSORT_ORDER_PARAMS, "private_method", 3), "dunder_method", 12)

OverrideRanks == {2, 4, 13}

SingleOverrides ==
    { dict_set(DEFAULT_CSORT_ORDER_PARAMS, k, r) :
        k \in {"dunder_method", "decorated_method", "private_method", "instance_method"},
        r \in OverrideRanks }

Orders == {DEFAULT_CSORT_ORDER_PARAMS, <<>>, MockOrder, OverrideOrder} \cup SingleOverrides

Configs == [order : Orders, use_csort_group : BOOLEAN]

NotBuilt == [built |-> FALSE, method_checking_map |-> <<>>, instance_method_default |-> 0]
None == Raise("None")

\* Optional[str]
NoPath == [isNone |-> TRUE, path |-> ""]
SomePath(path) == [isNone |-> FALSE, path |-> path]

\* the variables of the parts a driver does not use
NoMember == method = Pass /\ classified = None /\ described = None
NoOrder == methods = <<>> /\ sorted_methods = None /\ permuted = <<>> /\ sorted_permuted = None
NoStatic == staticised = None /\ static_method_count = 0
NoFile == file = <<>> /\ output_py = NoPath /\ response = None /\ response_again = None
NoBatch == disk = <<>> /\ paths = None /\ processed = 0 /\ written = {}
NoCommandLine == params = <<>> /\ loader = None /\ kwargs = <<>> /\ updated = None
NoMain == NoBatch /\ NoCommandLine
NoTable == orders = DecoratorDefaultDict /\ names = <<>> /\ ordered = <<>> /\ calls = 0
NoText == source_code = <<>> /\ repaired = None
NoExtra == NoTable /\ NoText
NoDecorator == written_as = <<>> /\ decorator_id = None /\ NoExtra

-----------------------------------------------------------------------------
(* Classification of one member: the describer is constructed from the     *)
(* configuration, then asked for the member's rank and for its sort key.   *)

InitDescribe ==
    /\ parser \in {"ast", "cst"}
    /\ config \in Configs
    /\ loaded = config
    /\ auto_static = FALSE
    /\ describer = NotBuilt
    /\ method \in MemberPool
    /\ classified = None
    /\ described = None
    /\ NoOrder
    /\ NoStatic
    /\ NoFile
    /\ NoMain
    /\ NoDecorator
    /\ pc = "start"

\* get_method_describer(parser_type, config=cfg)
Construct ==
    /\ pc = "start"
    /\ describer' = MethodDescriber_init(config)
    /\ config' = [config EXCEPT !.order = _setup_func_to_level_map(config).configs]
    /\ pc' = "built"
    /\ UNCHANGED <<env_vars, member_vars, order_vars, static_vars, file_vars, main_vars, decorator_vars>>

\* describer.get_method_type(node)
Classify ==
    /\ pc = "built"
    /\ classified' = get_method_type(parser, describer, method, TRUE)
    /\ pc' = "classified"
    /\ UNCHANGED <<env_vars, config, describer, method, described, order_vars, static_vars, file_vars, main_vars, decorator_vars>>

\* describe_method(node, describer)
Describe ==
    /\ pc = "built"
    /\ described' = describe_method(parser, describer, config, method)
    /\ pc' = "described"
    /\ UNCHANGED <<env_vars, config, describer, method, classified, order_vars, static_vars, file_vars, main_vars, decorator_vars>>

NextDescribe == Construct \/ Classify \/ Describe

SpecDescribe == InitDescribe /\ [][NextDescribe]_vars

-----------------------------------------------------------------------------
(* Properties of the classification *)

\* the member without its csort_group decorators
without_csort_group(node) ==
    [node EXCEPT !.decorator_list =
        SelectIdx(node.decorator_list,
                  {i \in 1..Len(node.decorator_list) :
                      get_decorator_id(node.decorator_list[i]) # "csort_group"}, 1)]

\* C7: with use_csort_group = false, describe_method gives a member decorated
\* with csort_group the sort key (ranks, decorator component, name) it gives the
\* same member without that decorator.
C7_OptOutSameKey ==
    (pc = "described" /\ ~use_csort_group(config) /\ is_csort_group(parser, method))
        => described = describe_method(parser, describer, config, without_csort_group(method))

\* the precedence list of the classifier, as documented
CanonicalPrecedence ==
    << "is_ellipsis", "is_class_docstring", "is_annotated_class_attribute",
       "is_class_attribute", "is_dunder_method", "is_csort_group", "is_class_method",
       "is_static_method", "is_property", "is_getter", "is_setter", "is_decorated",
       "is_private_method" >>

\* the predicates of the list that return true for the member
Satisfied ==
    {i \in 1..Len(CanonicalPrecedence) :
        /\ ~func_raises(parser, CanonicalPrecedence[i], method)
        /\ func_holds(parser, CanonicalPrecedence[i], method)}

NoneRaises ==
    \A i \in 1..Len(CanonicalPrecedence) : ~func_raises(parser, CanonicalPrecedence[i], method)

\* the rank the constructed describer holds for a predicate
rank_of(func) ==
    describer.method_checking_map[
        CHOOSE i \in 1..Len(describer.method_checking_map) :
            describer.method_checking_map[i].func = func].level

FirstSatisfied == CanonicalPrecedence[CHOOSE i \in Satisfied : \A j \in Satisfied : i <= j]

\* C9 as stated: for every configuration of ranks, a member that satisfies more
\* than one predicate is given the rank of the satisfied predicate that comes
\* first in the documented precedence list.
C9_CanonicalPrecedence ==
    (pc = "classified" /\ NoneRaises /\ Cardinality(Satisfied) > 1)
        => classified = Ok(rank_of(FirstSatisfied))

\* C9, amended: when get_method_type returns for a member that satisfies some
\* predicate, it returns the least rank the configuration gives to a predicate
\* the member satisfies.
C9_LeastSatisfiedRank ==
    (pc = "classified" /\ classified.raised = NoRaise /\ Satisfied # {})
        => /\ \E i \in Satisfied : classified.value = rank_of(CanonicalPrecedence[i])
           /\ \A i \in Satisfied : classified.value <= rank_of(CanonicalPrecedence[i])

\* a member satisfying two predicates has been classified under ranks that put
\* the later predicate of the documented list below the earlier one
C9_Witness ==
    /\ pc = "classified"
    /\ NoneRaises
    /\ Cardinality(Satisfied) > 1
    /\ classified.raised = NoRaise
    /\ classified.value < rank_of(FirstSatisfied)

\* C10: when the ordering configuration supplies instance_method = k, a function
\* member that matches no predicate is given rank k by get_method_type.
C10_ConfiguredInstanceRank ==
    ( /\ pc = "classified"
      /\ method.type = "FunctionDef"
      /\ NoneRaises
      /\ Satisfied = {}
      /\ dict_has(loaded.order, "instance_method") )
        => classified = Ok(dict_get(loaded.order, "instance_method"))

\* the entries of the constructed rank map that hold a predicate
entries_of(func) ==
    {i \in 1..Len(describer.method_checking_map) : describer.method_checking_map[i].func = func}

\* the rank the configuration read from the file asks for a method category:
\* the user's when the order section has it, the documented default otherwise
asked_rank(method_type) ==
    IF dict_has(loaded.order, method_type) THEN dict_get(loaded.order, method_type)
    ELSE dict_get(DEFAULT_CSORT_ORDER_PARAMS, method_type)

AscendingRanks(map) == \A i, j \in 1..Len(map) : i < j => map[i].level <= map[j].level

\* C11: the rank map of a constructed describer has exactly one entry per
\* classifying predicate: the fixed ranks 0, 0, 1, 2 of the structural
\* predicates, the user's rank for a method category of the order section and
\* the documented default for a category absent from it; the entries are in
\* ascending rank.
C11_RankMapComplete ==
    describer.built
        => /\ Len(describer.method_checking_map) = Len(CanonicalPrecedence)
           /\ \A i \in 1..Len(CanonicalPrecedence) :
                  Cardinality(entries_of(CanonicalPrecedence[i])) = 1
           /\ \A i \in 1..Len(_non_method_defaults) :
                  rank_of(_non_method_defaults[i].func) = _non_method_defaults[i].level
           /\ \A i \in 1..Len(_setup_config_to_func_map) :
                  rank_of(_setup_config_to_func_map[i].value)
                      = asked_rank(_setup_config_to_func_map[i].key)
           /\ AscendingRanks(describer.method_checking_map)

\* the highest rank of the fixed structural predicates
max_fixed_rank ==
    CHOOSE r \in {_non_method_defaults[i].level : i \in 1..Len(_non_method_defaults)} :
        \A i \in 1..Len(_non_method_defaults) : _non_method_defaults[i].level <= r

\* the order section gives a method category a rank not above the fixed ranks
LowRankConfigured ==
    \E i \in 1..Len(_setup_config_to_func_map) :
        /\ dict_has(loaded.order, _setup_config_to_func_map[i].key)
        /\ dict_get(loaded.order, _setup_config_to_func_map[i].key) <= max_fixed_rank

\* C12: constructing a describer from a configuration that gives a method
\* category a rank not greater than the highest fixed structural rank fails
\* (ValueError): no describer is built from it.
C12_LowRankRejected ==
    (pc # "start" /\ LowRankConfigured) => ~describer.built

\* a describer constructed from an order section that lacks some categories
\* and gives another a rank that is not its default
C11_Witness ==
    /\ describer.built
    /\ ~dict_has(loaded.order, "getter")
    /\ dict_has(loaded.order, "private_method")
    /\ dict_get(loaded.order, "private_method") # dict_get(DEFAULT_CSORT_ORDER_PARAMS, "private_method")

\* a function name that starts and ends with the double underscore
IsDunderName == startswith(method.name, "__") /\ endswith(method.name, "__")

\* C22: on either back-end is_private_method is true of a function exactly
\* when its name starts with an underscore and is not dunder, so a dunder
\* method does not satisfy the private_method predicate under any ranks.
C22_PrivateExcludesDunder ==
    (pc = "classified" /\ is_FunctionDef(parser, method))
        => ( func_holds(parser, "is_private_method", method)
                <=> (startswith(method.name, "_") /\ ~IsDunderName) )

\* C28: constructing a method describer leaves the configuration mapping it was given
\* unchanged: after construction the mapping holds the entries the loader returned.
C28_ConstructionKeepsConfig == describer.built => config = loaded

\* C24: with grouping enabled, a member that carries csort_group gets the
\* group rank as primary rank, as secondary rank the rank the same member gets
\* when the grouping decorator is not considered (a grouped plain method the
\* instance_method rank), and a decorator component without csort_group; any
\* other member has its primary rank as secondary rank.
C24_GroupedSecondaryRank ==
    ( /\ pc = "described"
      /\ use_csort_group(config)
      /\ is_FunctionDef(parser, method)
      /\ described.raised = NoRaise )
        => IF is_csort_group(parser, method)
           THEN /\ described.value.level = rank_of("is_csort_group")
                /\ Ok(described.value.second_level)
                       = get_method_type(parser, describer, without_csort_group(method), FALSE)
                /\ ~list_in("csort_group", described.value.decorators.items)
           ELSE described.value.second_level = described.value.level

-----------------------------------------------------------------------------
(* formatting.py: order_class_functions.  The key of sorted() is the tuple  *)
(* ((level, second_level), decorators, name) that describe_method returns.  *)

ranks_eq(a, b) == a.level = b.level /\ a.second_level = b.second_level

ranks_lt(a, b) ==
    \/ a.level < b.level
    \/ a.level = b.level /\ a.second_level < b.second_level

\* "a < b" of two keys raises TypeError: the ranks are equal and the tuple
\* comparison goes on to compare None with a list
key_compare_raises(a, b) == ranks_eq(a, b) /\ a.decorators.isNone # b.decorators.isNone

\* a comparison of the ranks and the names alone
key_lt_without_decorators(a, b) ==
    \/ ranks_lt(a, b)
    \/ ranks_eq(a, b) /\ str_lt(a.name, b.name)

\* "a < b" of two keys, when it does not raise
key_lt(a, b) ==
    \/ ranks_lt(a, b)
    \/ ranks_eq(a, b) /\ list_lt(a.decorators.items, b.decorators.items)
    \/ ranks_eq(a, b) /\ a.decorators = b.decorators /\ str_lt(a.name, b.name)

\* a member with what the key function returned for it
Item(node, key) == [node |-> node, key |-> key]

described_items(p, d, cfg, nodes) ==
    [i \in 1..Len(nodes) |-> Item(nodes[i], describe_method(p, d, cfg, nodes[i]))]

\* the next item of the input put last
insert_last(sorted_prefix, item) == Append(sorted_prefix, item)

\* sorted() is stable: the next item of the input goes after every item of the
\* sorted prefix whose key is not greater
insert_by_key(sorted_prefix, item) ==
    insert_at(sorted_prefix, item,
              Cardinality({i \in 1..Len(sorted_prefix) :
                              ~key_lt(item.key.value, sorted_prefix[i].key.value)}))

RECURSIVE sorted_by_key(_)
sorted_by_key(items) ==
    IF items = <<>> THEN <<>>
    ELSE insert_by_key(sorted_by_key(SubSeq(items, 1, Len(items) - 1)), items[Len(items)])

item_nodes(items) == [i \in 1..Len(items) |-> items[i].node]

\* the exception of the first member, in list order, whose key function raises
first_raised(items) ==
    items[CHOOSE i \in 1..Len(items) :
            /\ items[i].key.raised # NoRaise
            /\ \A j \in 1..(i - 1) : items[j].key.raised = NoRaise].key.raised

\* sorted(methods, key=...): every key is computed, then the keys are compared
sorted_items(items) ==
    IF \E i \in 1..Len(items) : items[i].key.raised # NoRaise THEN Raise(first_raised(items))
    ELSE IF \E i, j \in 1..Len(items) : key_compare_raises(items[i].key.value, items[j].key.value)
         THEN Raise("TypeError")
    ELSE Ok(item_nodes(sorted_by_key(items)))

\* parent is None: the list is sorted.  No member that sorted() accepts is a
\* class or holds one, so the comprehension returns the sorted members as they are.
order_class_functions(p, d, cfg, nodes) == sorted_items(described_items(p, d, cfg, nodes))

-----------------------------------------------------------------------------
(* Sorting one class body, and a permutation of it *)

MaxMembers == 3

Method(n, d) == FunctionDef(n, d, <<"self">>, "return self.x")
Grouped(n, label) == Method(n, <<DCall("csort_group", label)>>)

OrderPool ==
    { Assign("id", "1"),
      Method("__init__", <<>>),
      Method("run", <<>>),
      FunctionDef("run", <<>>, <<"self">>, "return 1"),
      Grouped("growling", "sound"),
      Method("bark", <<DName("abstractmethod"), DCall("csort_group", "sound")>>) }

\* the sequences of distinct members of S, up to n long
RECURSIVE DistinctSeqs(_, _)
DistinctSeqs(S, n) ==
    IF n = 0 THEN {<<>>}
    ELSE {<<>>} \cup UNION { {<<x>> \o q : q \in DistinctSeqs(S \ {x}, n - 1)} : x \in S }

\* class Dog of tests/scripts/csort_multi_group_input.py
Dog ==
    << Method("__init__", <<>>), Grouped("bark", "sound"), Grouped("color_of_dog", "describe"),
       Grouped("describe", "describe"), Grouped("growling", "sound"),
       Grouped("run", "movement"), Grouped("wag", "movement"), Grouped("walk", "movement"),
       Grouped("whimper", "sound") >>

Reversed(s) == [i \in 1..Len(s) |-> s[Len(s) + 1 - i]]

\* every reordering of a short list; the reversal of a long one
Reorderings(s) ==
    IF Len(s) <= MaxMembers
    THEN {[i \in 1..Len(s) |-> s[f[i]]] : f \in Permutations(1..Len(s))}
    ELSE {Reversed(s)}

OrderConfigs ==
    [order : {DEFAULT_CSORT_ORDER_PARAMS, dict_set(DEFAULT_CSORT_ORDER_PARAMS, "dunder_method", 2)},
     use_csort_group : BOOLEAN]

InitOrder ==
    /\ parser \in {"ast", "cst"}
    /\ config \in OrderConfigs
    /\ loaded = config
    /\ auto_static = FALSE
    /\ describer = NotBuilt
    /\ NoMember
    /\ methods \in DistinctSeqs(OrderPool, MaxMembers) \cup {Dog}
    /\ sorted_methods = None
    /\ permuted = <<>>
    /\ sorted_permuted = None
    /\ NoStatic
    /\ NoFile
    /\ NoMain
    /\ NoDecorator
    /\ pc = "start"

\* order_class_functions(methods, method_describer, parser)
Order ==
    /\ pc = "built"
    /\ sorted_methods' = order_class_functions(parser, describer, config, methods)
    /\ pc' = "ordered"
    /\ UNCHANGED <<env_vars, config, describer, member_vars, methods, permuted, sorted_permuted,
                   static_vars, file_vars, main_vars, decorator_vars>>

\* the same call on a reordering of the list
OrderPermuted ==
    /\ pc = "ordered"
    /\ \E q \in Reorderings(methods) :
           /\ permuted' = q
           /\ sorted_permuted' = order_class_functions(parser, describer, config, q)
    /\ pc' = "reordered"
    /\ UNCHANGED <<env_vars, config, describer, member_vars, methods, sorted_methods,
                   static_vars, file_vars, main_vars, decorator_vars>>

NextOrder == Construct \/ Order \/ OrderPermuted

SpecOrder == InitOrder /\ [][NextOrder]_vars

-----------------------------------------------------------------------------
(* Properties of the sort *)

Returned(r) == r.raised = NoRaise

\* the keys describe_method gives the members of a returned list
KeysOf(r) ==
    [i \in 1..Len(r.value) |-> describe_method(parser, describer, config, r.value[i]).value]

\* the members' whole decorator lists in canonical order
FullDecoratorsOf(r) ==
    [i \in 1..Len(r.value) |-> get_decorators(parser, r.value[i], TRUE).items]

KeyDecoratorsOf(keys) == [i \in 1..Len(keys) |-> keys[i].decorators.items]

list_le(s, t) == s = t \/ list_lt(s, t)
str_le(a, b) == a = b \/ str_lt(a, b)

\* A before B: rank(A) <= rank(B); with equal (primary, secondary) ranks the
\* decorator lists da, db are in order, and with equal lists the names are
InOrder(a, b, da, db) ==
    /\ a.level <= b.level
    /\ ranks_eq(a, b) => /\ list_le(da, db)
                         /\ da = db => str_le(a.name, b.name)

AllInOrder(keys, decorators) ==
    \A i, j \in 1..Len(keys) :
        i < j => InOrder(keys[i], keys[j], decorators[i], decorators[j])

EqualRanksOtherDecorators(keys) ==
    \E i, j \in 1..Len(keys) :
        i < j /\ ranks_eq(keys[i], keys[j]) /\ keys[i].decorators # keys[j].decorators

C2_SameSequence ==
    (pc = "reordered" /\ Returned(sorted_methods) /\ Returned(sorted_permuted))
        => sorted_methods.value = sorted_permuted.value

PositionIn(list, node) == CHOOSE i \in 1..Len(list) : list[i] = node

\* members of equal keys are in the result in the order they had in the input
KeepsInputOrder(input, nodes, keys) ==
    \A i, j \in 1..Len(nodes) :
        (i < j /\ keys[i] = keys[j]) => PositionIn(input, nodes[i]) < PositionIn(input, nodes[j])

DistinctKeys(keys) == \A i, j \in 1..Len(keys) : i # j => keys[i] # keys[j]

SameKeys(keys_a, keys_b) ==
    /\ keys_a = keys_b
    /\ KeepsInputOrder(methods, sorted_methods.value, keys_a)
    /\ KeepsInputOrder(permuted, sorted_permuted.value, keys_b)
    /\ DistinctKeys(keys_a) => sorted_methods.value = sorted_permuted.value

\* C2, amended: the call returns for a permutation exactly if it returns for the
\* list; both results carry the same sequence of sort keys, each keeps members
\* of equal keys in its input's order, and the results are the same sequence of
\* members when no two members have the same key.
C2_SameKeys ==
    pc = "reordered"
        => /\ Returned(sorted_methods) <=> Returned(sorted_permuted)
           /\ Returned(sorted_methods)
                => SameKeys(KeysOf(sorted_methods), KeysOf(sorted_permuted))

\* two orders of a list holding members of equal keys were sorted, the sort
\* moved members of the list, and the results differ
C2_Witness ==
    /\ pc = "reordered"
    /\ Returned(sorted_methods)
    /\ Returned(sorted_permuted)
    /\ permuted # methods
    /\ sorted_methods.value # methods
    /\ sorted_methods.value # sorted_permuted.value

carries_group(node) == is_csort_group(parser, node)

\* the label of the member's csort_group(group=...) decorator
group_label(node) ==
    node.decorator_list[CHOOSE i \in 1..Len(node.decorator_list) :
                            get_decorator_id(node.decorator_list[i]) = "csort_group"].arg

names_of(nodes) == [i \in 1..Len(nodes) |-> nodes[i].name]

\* C6: with grouping enabled and default ranks, the members carrying the
\* grouping decorator come out with equal labels contiguous, the groups in
\* alphabetical order of label and each group in alphabetical order of name;
\* class Dog sorts to __init__, the describe group, the movement group, the
\* sound group.
C6_GroupsByLabel ==
    ( /\ pc = "ordered"
      /\ use_csort_group(config)
      /\ loaded.order = DEFAULT_CSORT_ORDER_PARAMS
      /\ Returned(sorted_methods) )
        => /\ \A i, j \in 1..Len(sorted_methods.value) :
                  ( /\ i < j
                    /\ carries_group(sorted_methods.value[i])
                    /\ carries_group(sorted_methods.value[j]) )
                      => /\ str_le(group_label(sorted_methods.value[i]),
                                   group_label(sorted_methods.value[j]))
                         /\ group_label(sorted_methods.value[i])
                              = group_label(sorted_methods.value[j])
                            => str_le(sorted_methods.value[i].name,
                                      sorted_methods.value[j].name)
           /\ methods = Dog
                => names_of(sorted_methods.value)
                     = << "__init__", "color_of_dog", "describe", "run", "wag", "walk",
                          "bark", "growling", "whimper" >>

-----------------------------------------------------------------------------
(* Sorting one class body with either back-end *)

\* members the two back-ends have their own predicates and names for
BackendPool ==
    { Expr("..."), Expr("\"\"\"d\"\"\""), Assign("id", "..."),
      Method("__init__", <<>>), Method("_func", <<>>), Method("run", <<>>),
      ClassDef("name") }

BackendConfigs == [order : {DEFAULT_CSORT_ORDER_PARAMS, OverrideOrder}, use_csort_group : BOOLEAN]

InitBackends ==
    /\ parser \in {"ast", "cst"}
    /\ config \in BackendConfigs
    /\ loaded = config
    /\ auto_static = FALSE
    /\ describer = NotBuilt
    /\ NoMember
    /\ methods \in DistinctSeqs(BackendPool, MaxMembers)
    /\ sorted_methods = None
    /\ permuted = <<>>
    /\ sorted_permuted = None
    /\ NoStatic
    /\ NoFile
    /\ NoMain
    /\ NoDecorator
    /\ pc = "start"

NextBackends == Construct \/ Order

SpecBackends == InitBackends /\ [][NextBackends]_vars

other_parser == IF parser = "ast" THEN "cst" ELSE "ast"

\* the names a back-end extracts from the members of a returned list, or the
\* exception the call raised
names_or_raise(p, r) ==
    IF r.raised = NoRaise
    THEN Ok([i \in 1..Len(r.value) |-> get_expression_name(p, r.value[i]).value])
    ELSE Raise(r.raised)

\* C13: sorting the members of a class body with the AST describer and with
\* the CST describer yields the same sequence of member names, for every body
\* and every configuration.
C13_SameNamesEitherBackend ==
    pc = "ordered"
        => names_or_raise(parser, sorted_methods)
             = names_or_raise(other_parser,
                              order_class_functions(other_parser, describer, config, methods))

\* the member list holds a nested class definition
HoldsNestedClass == \E i \in 1..Len(methods) : methods[i].type = "ClassDef"

\* C19: order_class_functions handles a class body that holds a nested class:
\* it returns, and the nested class definition is in the returned list, among
\* its siblings, where the comparator of every other member puts it.
C19_NestedClassPlaced ==
    (pc = "ordered" /\ HoldsNestedClass)
        => /\ sorted_methods.raised = NoRaise
           /\ \E j \in 1..Len(sorted_methods.value) :
                  sorted_methods.value[j].type = "ClassDef"

-----------------------------------------------------------------------------
(* decorators.py: StaticMethodChecker *)

\* "self" in params, and "self" not in the text of the body; the same test on
\* both back-ends
could_be_static(func) == list_in("self", func.args) /\ ~str_contains(func.body, "self")

_check_for_static(p, func) ==
    IF has_decorator(p, func, "staticmethod") THEN FALSE
    ELSE IF has_decorator(p, func, "abstractmethod") THEN FALSE
    ELSE could_be_static(func)

\* [arg for arg in args if arg != "self"]
without_self(args) == SelectIdx(args, {i \in 1..Len(args) : args[i] # "self"}, 1)

\* the decorator is appended to the decorator list
_make_static_ast(func) ==
    [func EXCEPT !.decorator_list = Append(func.decorator_list, DName("staticmethod")),
                 !.args = without_self(func.args)]

\* the decorators are changed to the tuple holding the one new decorator
_make_static_cst(func) ==
    [func EXCEPT !.decorator_list = <<DName("staticmethod")>>,
                 !.args = without_self(func.args)]

_make_static(p, func) == IF p = "ast" THEN _make_static_ast(func) ELSE _make_static_cst(func)

\* whether _staticise rewrites the component
is_staticised(p, func) == is_FunctionDef(p, func) /\ _check_for_static(p, func)

_staticise(p, func) == IF is_staticised(p, func) THEN _make_static(p, func) ELSE func

-----------------------------------------------------------------------------
(* The auto-static check of one class component *)

StaticParams == {<<>>, <<"self">>, <<"self", "x">>, <<"x", "self">>, <<"cls">>}
StaticBodies == {"return 1", "return self.x", "return myself"}
StaticDecorators ==
    { <<>>, <<DName("staticmethod")>>, <<DName("abstractmethod")>>, <<DName("lru_cache")>>,
      <<DName("classmethod")>> }

StaticPool ==
    { FunctionDef("run", d, a, b) : d \in StaticDecorators, a \in StaticParams, b \in StaticBodies }
        \cup { AsyncFunctionDef("run", <<>>, <<"self">>, "return 1"), Assign("id", "1"), Pass }

InitStatic ==
    /\ parser \in {"ast", "cst"}
    /\ config = [order |-> DEFAULT_CSORT_ORDER_PARAMS, use_csort_group |-> TRUE]
    /\ loaded = config
    /\ auto_static = TRUE
    /\ describer = NotBuilt
    /\ method \in StaticPool
    /\ classified = None
    /\ described = None
    /\ NoOrder
    /\ NoStatic
    /\ NoFile
    /\ NoMain
    /\ NoDecorator
    /\ pc = "start"

\* StaticMethodChecker._staticise(func)
Staticise ==
    /\ pc = "start"
    /\ staticised' = Ok(_staticise(parser, method))
    /\ static_method_count' =
           IF is_staticised(parser, method) THEN static_method_count + 1
           ELSE static_method_count
    /\ pc' = "staticised"
    /\ UNCHANGED <<env_vars, config, describer, member_vars, order_vars, file_vars, main_vars, decorator_vars>>

NextStatic == Staticise

SpecStatic == InitStatic /\ [][NextStatic]_vars

\* C8: a method not decorated staticmethod or abstractmethod is rewritten
\* exactly if its first parameter is self and "self" is not in the text of its
\* body; a rewritten method gains the staticmethod decorator and loses exactly
\* that first parameter; a method whose body mentions self is left untouched.
C8_RewrittenIffUnusedReceiver ==
    ( /\ pc = "staticised"
      /\ is_FunctionDef(parser, method)
      /\ ~has_decorator(parser, method, "staticmethod")
      /\ ~has_decorator(parser, method, "abstractmethod") )
        => /\ (staticised.value # method)
                <=> ( /\ method.args # <<>>
                      /\ method.args[1] = "self"
                      /\ ~str_contains(method.body, "self") )
           /\ (staticised.value # method)
                => staticised.value =
                       [method EXCEPT
                           !.decorator_list = Append(method.decorator_list, DName("staticmethod")),
                           !.args = Tail(method.args)]
           /\ str_contains(method.body, "self") => staticised.value = method

\* a parameter list with every parameter other than self in its place
other_params(args) == SelectSeq(args, LAMBDA a : a # "self")

\* C20: on either back-end the decorator list of a rewritten method is the
\* original list, unchanged and in its order, followed by staticmethod; the
\* name, the body and the parameters other than self are as they were.
C20_DecoratorsKeptOnRewrite ==
    (pc = "staticised" /\ is_staticised(parser, method))
        => /\ staticised.value.decorator_list =
                  Append(method.decorator_list, DName("staticmethod"))
           /\ staticised.value.name = method.name
           /\ staticised.value.body = method.body
           /\ other_params(staticised.value.args) = other_params(method.args)

-----------------------------------------------------------------------------
(* ast_functions.py, cst_functions.py: the classes of a module.  A module   *)
(* is the sequence of its top-level class definitions, a class is its name *)
(* and its body, and the text of a module is held by its statements.       *)

TopClass(name, body) == [name |-> name, body |-> body]

\* the text of a tree: a class of no statements is written as its header line
nodes_to_code(tree) == [statements |-> tree]

\* a class header that no indented block follows is not Python: the parser raises
parse_code(p, code) ==
    IF \E i \in 1..Len(code.statements) : code.statements[i].body = <<>>
    THEN Raise(IF p = "ast" THEN "SyntaxError" ELSE "ParserSyntaxError")
    ELSE Ok(code.statements)

find_classes_response(node, index) == [node |-> node, index |-> index]

\* classes[node.name] = response, for the first n classes of the module in
\* order: a later class of the same name takes the entry of the earlier one
RECURSIVE find_classes(_, _)
find_classes(module, n) ==
    IF n = 0 THEN <<>>
    ELSE dict_set(find_classes(module, n - 1), module[n].name,
                  find_classes_response(module[n], n))

\* AST: the statements of the body that are csortable; CST: the body
extract_class_components(p, node) ==
    IF p = "ast"
    THEN SelectIdx(node.body, {i \in 1..Len(node.body) : is_csortable(p, node.body[i])}, 1)
    ELSE node.body

update_node(cls, components) == [cls EXCEPT !.node.body = components]

\* AST: module.body[cls["index"]] = cls["node"] for every entry of classes
update_module_ast(module, classes) ==
    [i \in 1..Len(module) |->
        IF \E k \in 1..Len(classes) : classes[k].value.index = i
        THEN classes[CHOOSE k \in 1..Len(classes) : classes[k].value.index = i].value.node
        ELSE module[i]]

\* CST: every class of the module becomes classes[its name]["node"]
update_module_cst(module, classes) ==
    [i \in 1..Len(module) |-> dict_get(classes, module[i].name).node]

update_module(p, module, classes) ==
    IF p = "ast" THEN update_module_ast(module, classes) ELSE update_module_cst(module, classes)

-----------------------------------------------------------------------------
(* decorators.py: staticise_classes; formatting.py: format_csort *)

staticise_list(p, funcs) == [i \in 1..Len(funcs) |-> _staticise(p, funcs[i])]

staticise_classes(p, class_dict) ==
    [k \in 1..Len(class_dict) |->
        Entry(class_dict[k].key, staticise_list(p, class_dict[k].value))]

\* {name: parser.extract_class_components(cls["node"]) for name, cls in classes.items()}
class_functions(p, classes) ==
    [k \in 1..Len(classes) |->
        Entry(classes[k].key, extract_class_components(p, classes[k].value.node))]

\* {cls: order_class_functions(methods, ...) for cls, methods in functions.items()}
sorted_class_functions(p, d, cfg, functions) ==
    [k \in 1..Len(functions) |->
        Entry(functions[k].key, order_class_functions(p, d, cfg, functions[k].value))]

\* {name: parser.update_node(cls, sorted_functions[name]) for name, cls in classes.items()}
updated_classes(classes, sorted_functions) ==
    [k \in 1..Len(classes) |->
        Entry(classes[k].key, update_node(classes[k].value, sorted_functions[k].value.value))]

\* every diff starts with the header lines of format_csort
DIFF_HEADER == "**************"
NoCode == nodes_to_code(<<>>)

\* what a call of format_csort leaves: the exception or the response, the text
\* it produced, and whether it wrote the text to output_py
Outcome(raised, code, diff, produced, new_code, wrote) ==
    [raised |-> raised, code |-> code, diff |-> diff, produced |-> produced,
     new_code |-> new_code, wrote |-> wrote]

\* the exception of the first class, in dictionary order, whose sort raises
first_sort_raised(sorted_functions) ==
    sorted_functions[CHOOSE k \in 1..Len(sorted_functions) :
        /\ sorted_functions[k].value.raised # NoRaise
        /\ \A j \in 1..(k - 1) : sorted_functions[j].value.raised = NoRaise].value.raised

\* format_csort from the comparison of functions with sorted_functions on
format_compared(p, out, parsed_code, classes, functions, sorted_functions) ==
    IF \E k \in 1..Len(sorted_functions) : sorted_functions[k].value.raised # NoRaise
    THEN Outcome(first_sort_raised(sorted_functions), 0, "", FALSE, NoCode, FALSE)
    ELSE IF \A k \in 1..Len(functions) : functions[k].value = sorted_functions[k].value.value
         THEN Outcome(NoRaise, 0, "", FALSE, NoCode, FALSE)
    ELSE Outcome(NoRaise, 1, DIFF_HEADER, TRUE,
                 nodes_to_code(update_module(p, parsed_code,
                                             updated_classes(classes, sorted_functions))),
                 ~out.isNone)

format_functions(p, d, cfg, out, parsed_code, classes, functions) ==
    format_compared(p, out, parsed_code, classes, functions,
                    sorted_class_functions(p, d, cfg, functions))

\* the checker is constructed and staticise_classes replaces functions
format_classes(p, d, cfg, out, auto, parsed_code, classes) ==
    format_functions(p, d, cfg, out, parsed_code, classes,
                     IF auto THEN staticise_classes(p, class_functions(p, classes))
                     ELSE class_functions(p, classes))

format_parsed(p, d, cfg, out, auto, parsed_code) ==
    format_classes(p, d, cfg, out, auto, parsed_code, find_classes(parsed_code, Len(parsed_code)))

format_parse_result(p, d, cfg, out, auto, parsed) ==
    IF parsed.raised # NoRaise THEN Outcome(parsed.raised, 0, "", FALSE, NoCode, FALSE)
    ELSE format_parsed(p, d, cfg, out, auto, parsed.value)

format_csort(p, d, cfg, code, out, auto) ==
    format_parse_result(p, d, cfg, out, auto, parse_code(p, code))

-----------------------------------------------------------------------------
(* The pipeline on one file, and again on the file it wrote *)

MaxBody == 2

BodyPool ==
    { Method("run", <<>>),
      FunctionDef("run", <<>>, <<"self">>, "return 1"),
      Method("bark", <<>>),
      Assign("id", "1"),
      Pass,
      ClassDef("name"),
      AsyncFunctionDef("describe", <<>>, <<"self">>, "return self.x") }

\* a class body holds a statement
Bodies == SeqsUpTo(BodyPool, MaxBody) \ {<<>>}

\* the body of a second class of the file: in sorted order, or not
SecondBodies ==
    { <<Method("bark", <<>>), Method("run", <<>>)>>,
      <<Method("run", <<>>), Method("bark", <<>>)>> }

\* one class; two classes; two classes of one name
Files ==
    { <<TopClass("A", b)>> : b \in Bodies }
        \cup { <<TopClass("A", b), TopClass(n, c)>> : b \in Bodies, n \in {"A", "B"}, c \in SecondBodies }

InitFile ==
    /\ parser \in {"ast", "cst"}
    /\ config = [order |-> DEFAULT_CSORT_ORDER_PARAMS, use_csort_group |-> TRUE]
    /\ loaded = config
    /\ auto_static \in BOOLEAN
    /\ describer = NotBuilt
    /\ NoMember
    /\ NoOrder
    /\ NoStatic
    /\ NoMain
    /\ NoDecorator
    /\ file \in Files
    /\ output_py \in {NoPath, SomePath("out.py")}
    /\ response = None
    /\ response_again = None
    /\ pc = "start"

\* format_csort(parser, file_path, method_describer, output_py, auto_static)
FormatCsort ==
    /\ pc = "built"
    /\ response' = format_csort(parser, describer, config, nodes_to_code(file), output_py,
                                auto_static)
    /\ pc' = "formatted"
    /\ UNCHANGED <<env_vars, config, describer, member_vars, order_vars, static_vars,
                   file, output_py, response_again, main_vars, decorator_vars>>

\* the same call with file_path the file the first call wrote
FormatCsortAgain ==
    /\ pc = "formatted"
    /\ response.raised = NoRaise
    /\ response.wrote
    /\ response_again' = format_csort(parser, describer, config, response.new_code, output_py,
                                      auto_static)
    /\ pc' = "formatted_again"
    /\ UNCHANGED <<env_vars, config, describer, member_vars, order_vars, static_vars,
                   file, output_py, response, main_vars, decorator_vars>>

Next == Construct \/ FormatCsort \/ FormatCsortAgain

Spec == InitFile /\ [][Next]_vars

-----------------------------------------------------------------------------
(* Properties of the pipeline *)

\* C3: format_csort run on the text its first run wrote returns code 0 with an
\* empty diff, produces no new text and writes nothing: the text the first run
\* wrote is the text after both runs.
C3_SecondRunUnchanged ==
    pc = "formatted_again"
        => /\ response_again.raised = NoRaise
           /\ response_again.code = 0
           /\ response_again.diff = ""
           /\ ~response_again.produced
           /\ ~response_again.wrote

\* the sorted member order of some class of the file is not its member order
OrderDiffers ==
    \E i \in 1..Len(file) :
        order_class_functions(parser, describer, config,
                              extract_class_components(parser, file[i]))
            # Ok(extract_class_components(parser, file[i]))

\* C4: for every file, format_csort returns code 1 and writes the output
\* exactly when the sorted member order of some class differs from its
\* original order, and otherwise returns code 0 with an empty diff and writes
\* nothing, even with an output path.
C4_ChangedIffOrderDiffers ==
    pc = "formatted"
        => /\ response.raised = NoRaise
           /\ OrderDiffers => (response.code = 1 /\ (response.wrote <=> ~output_py.isNone))
           /\ ~OrderDiffers => (response.code = 0 /\ response.diff = "" /\ ~response.wrote)

\* how often a statement stands in a body
Count(body, statement) == Cardinality({i \in 1..Len(body) : body[i] = statement})

IsPermutation(body_a, body_b) ==
    /\ Len(body_a) = Len(body_b)
    /\ \A i \in 1..Len(body_a) : Count(body_a, body_a[i]) = Count(body_b, body_a[i])

DistinctClassNames == \A i, j \in 1..Len(file) : i # j => file[i].name # file[j].name

\* C5: the class body update_node splices back is a permutation of the
\* original class body: every statement of it, sortable or not, is in the
\* rewritten body exactly once.
C5_BodyIsPermutation ==
    (pc = "formatted" /\ response.produced /\ ~auto_static /\ DistinctClassNames)
        => \A i \in 1..Len(file) :
               IsPermutation(response.new_code.statements[i].body, file[i].body)

\* a later class of the module has the name of class i: find_classes drops i
Shadowed(i) == \E j \in (i + 1)..Len(file) : file[j].name = file[i].name

\* the members of class i as update_node stores them when nothing is made static
SortedBodyOf(i) ==
    order_class_functions(parser, describer, config,
                          extract_class_components(parser, file[i])).value

\* C23: after update_module the module has as many top-level statements as
\* before and each class position holds the updated node of the class that
\* was at that position; of two classes of one name only the last is
\* replaced, the earlier one is left exactly as it was.
C23_ClassesSplicedInPlace ==
    (pc = "formatted" /\ response.raised = NoRaise /\ response.produced /\ ~auto_static)
        => /\ Len(response.new_code.statements) = Len(file)
           /\ \A i \in 1..Len(file) :
                  IF Shadowed(i) THEN response.new_code.statements[i] = file[i]
                  ELSE response.new_code.statements[i] = TopClass(file[i].name, SortedBodyOf(i))

\* the members of class i that the auto-static pass rewrites
RewrittenMembers(i) ==
    {j \in 1..Len(extract_class_components(parser, file[i])) :
        _staticise(parser, extract_class_components(parser, file[i])[j])
            # extract_class_components(parser, file[i])[j]}

\* C29: if the auto-static pass rewrites a method of a class of the file, format_csort
\* returns code 1 and, with an output path, writes a text that holds the rewritten
\* method, also when the member order of every class is already the sorted one.
C29_StaticRewriteKept ==
    (pc = "formatted" /\ auto_static /\ response.raised = NoRaise)
        => \A i \in 1..Len(file) :
               (~Shadowed(i) /\ RewrittenMembers(i) # {})
                   => /\ response.code = 1
                      /\ ~output_py.isNone
                             => /\ response.wrote
                                /\ \A j \in RewrittenMembers(i) :
                                       \E k \in 1..Len(response.new_code.statements[i].body) :
                                           response.new_code.statements[i].body[k]
                                               = _staticise(parser,
                                                     extract_class_components(parser, file[i])[j])

-----------------------------------------------------------------------------
(* main.py: the paths of a batch.  The disk holds what is at the input     *)
(* path: nothing, one file, a directory whose .py scripts rglob lists, or  *)
(* something that is neither; texts[i] is the text of scripts[i].          *)

Paths(py_scripts, outputs) == [py_scripts |-> py_scripts, outputs |-> outputs]

\* [None] * len(py_scripts)
none_outputs(py_scripts) == [i \in 1..Len(py_scripts) |-> NoPath]

\* outputs that ignore check_only
_validate_paths_writing(input_path, output_path, check_only) ==
    Ok(Paths(<<input_path>>, <<SomePath(input_path)>>))

_validate_paths_input_file(input_path, output_path, check_only) ==
    IF check_only THEN Ok(Paths(<<input_path>>, none_outputs(<<input_path>>)))
    ELSE IF output_path.isNone THEN Ok(Paths(<<input_path>>, <<SomePath(input_path)>>))
    ELSE IF endswith(output_path.path, ".py") THEN Ok(Paths(<<input_path>>, <<output_path>>))
    ELSE Ok(Paths(<<input_path>>,
                  <<SomePath(joinpath(output_path.path, path_name(input_path)))>>))

\* a directory that takes its output path whatever it is
_validate_paths_any_output(py_scripts, output_path, check_only) ==
    Ok(Paths(py_scripts, [i \in 1..Len(py_scripts) |-> output_path]))

\* py_scripts is what input_path.rglob("*.py") lists
_validate_paths_input_dir(py_scripts, output_path, check_only) ==
    IF check_only THEN Ok(Paths(py_scripts, none_outputs(py_scripts)))
    ELSE IF output_path.isNone
         THEN Ok(Paths(py_scripts, [i \in 1..Len(py_scripts) |-> SomePath(py_scripts[i])]))
    ELSE IF endswith(output_path.path, ".py") THEN Raise("ValueError")
    ELSE Ok(Paths(py_scripts,
                  [i \in 1..Len(py_scripts) |->
                      SomePath(joinpath(output_path.path, path_name(py_scripts[i])))]))

validate_paths(d, output_path, check_only) ==
    IF d.kind = "missing" THEN Raise("FileNotFoundError")
    ELSE IF d.kind = "file" THEN _validate_paths_input_file(d.path, output_path, check_only)
    ELSE IF d.kind = "dir" THEN _validate_paths_input_dir(d.scripts, output_path, check_only)
    ELSE Raise("ValueError")

Disk(kind, path, scripts, texts) ==
    [kind |-> kind, path |-> path, scripts |-> scripts, texts |-> texts]

\* open(output_py, "w").writelines(new_code): the text of the script at that path
write_text(d, path, text) ==
    [d EXCEPT !.texts = [i \in 1..Len(d.texts) |->
                            IF d.scripts[i] = path THEN text ELSE d.texts[i]]]

\* the loop of main() after format_csort returned r for script i
after_format(i, output, r) ==
    /\ response' = r
    /\ processed' = i
    /\ written' = IF r.raised = NoRaise /\ r.wrote THEN written \cup {output.path} ELSE written
    /\ disk' = IF r.raised = NoRaise /\ r.wrote THEN write_text(disk, output.path, r.new_code)
               ELSE disk
    /\ pc' = IF r.raised = NoRaise THEN "built" ELSE "failed"

-----------------------------------------------------------------------------
(* main(): validate_paths, the describer, then format_csort on each script *)
(* of the batch with its output.                                           *)

SortedText == nodes_to_code(<<TopClass("A", <<Method("bark", <<>>), Method("run", <<>>)>>)>>)
UnsortedText == nodes_to_code(<<TopClass("A", <<Method("run", <<>>), Method("bark", <<>>)>>)>>)
Texts == {SortedText, UnsortedText}

ScriptLists == { <<>>, <<"src/a.py", "src/b.py">>, <<"src/a.py", "src/sub/a.py">> }

Disks ==
    { Disk("missing", "src", <<>>, <<>>), Disk("other", "src", <<>>, <<>>) }
        \cup { Disk("file", "src/a.py", <<"src/a.py">>, <<t>>) : t \in Texts }
        \cup UNION { { Disk("dir", "src", l, texts) : texts \in [1..Len(l) -> Texts] } :
                     l \in ScriptLists }

OutputPaths == {NoPath, SomePath("out.py"), SomePath("out")}

Params(output_path, check, diff, config_path) ==
    [output_path |-> output_path, check |-> check, diff |-> diff, config_path |-> config_path]

InitMain ==
    /\ parser \in {"ast", "cst"}
    /\ config = [order |-> DEFAULT_CSORT_ORDER_PARAMS, use_csort_group |-> TRUE]
    /\ loaded = config
    /\ auto_static = FALSE
    /\ describer = NotBuilt
    /\ NoMember
    /\ NoOrder
    /\ NoStatic
    /\ NoFile
    /\ params \in {Params(o, c, d, NoPath) : o \in OutputPaths, c \in BOOLEAN, d \in BOOLEAN}
    /\ disk \in Disks
    /\ paths = None
    /\ processed = 0
    /\ written = {}
    /\ loader = None
    /\ kwargs = <<>>
    /\ updated = None
    /\ NoDecorator
    /\ pc = "main"

\* py_scripts, outputs = validate_paths(input_path, output_path, check or diff)
ValidatePaths ==
    /\ pc = "main"
    /\ paths' = validate_paths(disk, params.output_path, params.check \/ params.diff)
    /\ pc' = IF paths'.raised = NoRaise THEN "start" ELSE "failed"
    /\ UNCHANGED <<env_vars, config, describer, member_vars, order_vars, static_vars, file_vars,
                   params, disk, processed, written, loader, kwargs, updated, decorator_vars>>

\* one turn of the loop over zip(py_scripts, outputs)
FormatNext ==
    /\ pc = "built"
    /\ processed < Len(paths.value.py_scripts)
    /\ after_format(processed + 1, paths.value.outputs[processed + 1],
                    format_csort(parser, describer, config, disk.texts[processed + 1],
                                 paths.value.outputs[processed + 1], auto_static))
    /\ UNCHANGED <<env_vars, config, describer, member_vars, order_vars, static_vars,
                   file, output_py, response_again, params, paths, loader, kwargs, updated, decorator_vars>>

\* the loop is over: main() logs the count and returns
Finish ==
    /\ pc = "built"
    /\ processed = Len(paths.value.py_scripts)
    /\ pc' = "done"
    /\ UNCHANGED <<env_vars, config, describer, member_vars, order_vars, static_vars, file_vars,
                   main_vars, decorator_vars>>

NextMain == ValidatePaths \/ Construct \/ FormatNext \/ Finish

SpecMain == InitMain /\ [][NextMain]_vars

-----------------------------------------------------------------------------
(* Properties of the batch *)

check_only == params.check \/ params.diff

\* C14: in check mode and in diff mode validate_paths gives every input a None
\* output, format_csort writes only when its output path is not None, and no
\* file of the batch is written.
C14_NothingWrittenWhenChecking ==
    /\ (check_only /\ paths.raised = NoRaise)
          => \A i \in 1..Len(paths.value.outputs) : paths.value.outputs[i] = NoPath
    /\ (processed > 0 /\ response.raised = NoRaise /\ response.wrote)
          => ~paths.value.outputs[processed].isNone
    /\ check_only => written = {}

\* in check or diff mode, with an output path on the command line, a script
\* whose classes are not in sorted order has been through format_csort
C14_Witness ==
    /\ check_only
    /\ ~params.output_path.isNone
    /\ processed > 0
    /\ response.raised = NoRaise
    /\ response.code = 1

names_one_py_file(output_path) == ~output_path.isNone /\ endswith(output_path.path, ".py")

NothingTouched == processed = 0 /\ written = {}

\* C15 as stated: validate_paths raises FileNotFoundError when the input path
\* does not exist, and ValueError whenever the input path is a directory and
\* the output path names a single .py file; in both cases no file has been
\* formatted or written.
C15_PathErrorsFatal ==
    pc # "main"
        => /\ disk.kind = "missing" => (paths.raised = "FileNotFoundError" /\ NothingTouched)
           /\ (disk.kind = "dir" /\ names_one_py_file(params.output_path))
                 => (paths.raised = "ValueError" /\ NothingTouched)

\* C15, amended: the ValueError for a directory with a .py output path is
\* raised when neither check nor diff mode is on; in those modes the output
\* path is not looked at and validate_paths returns the batch with None outputs.
C15_PathErrorsFatalUnlessChecking ==
    pc # "main"
        => /\ disk.kind = "missing" => (paths.raised = "FileNotFoundError" /\ NothingTouched)
           /\ (disk.kind = "dir" /\ names_one_py_file(params.output_path) /\ ~check_only)
                 => (paths.raised = "ValueError" /\ NothingTouched)
           /\ (disk.kind = "dir" /\ names_one_py_file(params.output_path) /\ check_only)
                 => /\ paths.raised = NoRaise
                    /\ paths.value = Paths(disk.scripts, none_outputs(disk.scripts))

\* main() stopped at validate_paths for a directory of scripts and a .py output
C15_Witness ==
    /\ pc = "failed"
    /\ disk.kind = "dir"
    /\ disk.scripts # <<>>
    /\ names_one_py_file(params.output_path)
    /\ paths.raised = "ValueError"

\* C30: validate_paths returns as many outputs as inputs, and for a directory searched
\* recursively with a directory as output path, distinct input files get distinct
\* output paths.
C30_DistinctOutputs ==
    paths.raised = NoRaise
        => /\ Len(paths.value.outputs) = Len(paths.value.py_scripts)
           /\ (disk.kind = "dir" /\ ~check_only /\ ~params.output_path.isNone)
                  => \A i, j \in 1..Len(paths.value.py_scripts) :
                         paths.value.py_scripts[i] # paths.value.py_scripts[j]
                             => paths.value.outputs[i] # paths.value.outputs[j]

-----------------------------------------------------------------------------
(* config_loader.py *)

DEFAULT_CONFIG_INI_FILE_NAME == "csort.ini"
DEFAULT_CONFIG_TOML_FILE_NAME == "pyproject.toml"

\* CONFIG_LOADERS: suffix -> loader class
CONFIG_LOADERS == << Entry(".ini", "ConfigLoaderIni"), Entry(".toml", "ConfigLoaderToml") >>

\* an instance of a loader class: ConfigLoader.__init__(config_path)
ConfigLoader(cls, config_path) == [cls |-> cls, config_path |-> config_path]

\* a check that lets any number of matching files through
_validate_first_path(config_path) ==
    IF Len(config_path) >= 1 THEN Ok(SomePath(config_path[1])) ELSE Ok(NoPath)

\* config_path is the list of matching files
_validate_config_path(config_path) ==
    IF Len(config_path) > 1 THEN Raise("ValueError")
    ELSE IF Len(config_path) = 1 THEN Ok(SomePath(config_path[1]))
    ELSE Ok(NoPath)

\* Path.cwd().glob(default_config_file_name), from the working directory d
_locate_config_file(cls, d) == IF cls = "ConfigLoaderIni" THEN d.ini_files ELSE d.toml_files

get_config_file_path(cls, d) == _validate_config_path(_locate_config_file(cls, d))

\* the loop over the loaders from the i-th on: the first path found, None, or
\* the exception of the loader that found too many
RECURSIVE discover(_, _), discovered(_, _, _)
discover(d, i) ==
    IF i > Len(CONFIG_LOADERS) THEN Ok(NoPath)
    ELSE discovered(d, i, get_config_file_path(CONFIG_LOADERS[i].value, d))

discovered(d, i, found) ==
    IF found.raised # NoRaise THEN found
    ELSE IF ~found.value.isNone THEN found
    ELSE discover(d, i + 1)

loader_for(config_path) ==
    IF config_path.raised # NoRaise THEN config_path
    ELSE IF config_path.value.isNone THEN Ok(ConfigLoader("ConfigLoaderToml", NoPath))
    ELSE Ok(ConfigLoader(dict_get(CONFIG_LOADERS, path_suffix(config_path.value.path)),
                         config_path.value))

get_config_loader(config_path, d) ==
    IF ~config_path.isNone
    THEN IF ~dict_has(CONFIG_LOADERS, path_suffix(config_path.path)) THEN Raise("ValueError")
         ELSE Ok(ConfigLoader(dict_get(CONFIG_LOADERS, path_suffix(config_path.path)),
                              config_path))
    ELSE loader_for(discover(d, 1))

\* the reader of a loader class reads only files of its own suffix
reader_suffix(cls) == IF cls = "ConfigLoaderIni" THEN ".ini" ELSE ".toml"

_load_defaults == [order |-> DEFAULT_CSORT_ORDER_PARAMS, use_csort_group |-> TRUE]

\* the file at config_path holds the sections d.file_config
_read_config(cls, config_path, d) ==
    IF ~endswith(config_path, reader_suffix(cls)) THEN Raise("ValueError")
    ELSE Ok(d.file_config)

loaded_from(cls, config_path, d) ==
    IF config_path.raised # NoRaise THEN config_path
    ELSE IF config_path.value.isNone THEN Ok(_load_defaults)
    ELSE _read_config(cls, config_path.value.path, d)

_load_config(l, d) ==
    loaded_from(l.cls,
                IF l.config_path.isNone THEN get_config_file_path(l.cls, d) ELSE Ok(l.config_path),
                d)

-----------------------------------------------------------------------------
(* Choosing the loader for a command line and a working directory, and     *)
(* loading the configuration with it                                       *)

MaxMatches == 2

WorkingDir(ini_files, toml_files, file_config) ==
    [ini_files |-> ini_files, toml_files |-> toml_files, file_config |-> file_config]

Matches(name) == {[i \in 1..n |-> name] : n \in 0..MaxMatches}

ConfigPaths ==
    { NoPath, SomePath("csort.ini"), SomePath("conf/csort.ini"), SomePath("pyproject.toml"),
      SomePath("setup.cfg"), SomePath("csort") }

InitLoader ==
    /\ parser = "cst"
    /\ config = [order |-> <<>>, use_csort_group |-> TRUE]
    /\ loaded = config
    /\ auto_static = FALSE
    /\ describer = NotBuilt
    /\ NoMember
    /\ NoOrder
    /\ NoStatic
    /\ NoFile
    /\ params \in {Params(NoPath, FALSE, FALSE, c) : c \in ConfigPaths}
    /\ disk \in { WorkingDir(i, t, [order |-> MockOrder, use_csort_group |-> g]) :
                    i \in Matches(DEFAULT_CONFIG_INI_FILE_NAME),
                    t \in Matches(DEFAULT_CONFIG_TOML_FILE_NAME),
                    g \in BOOLEAN }
    /\ paths = None
    /\ processed = 0
    /\ written = {}
    /\ loader = None
    /\ kwargs = <<>>
    /\ updated = None
    /\ NoDecorator
    /\ pc = "main"

\* get_config_loader(config_path)
GetConfigLoader ==
    /\ pc = "main"
    /\ loader' = get_config_loader(params.config_path, disk)
    /\ pc' = IF loader'.raised = NoRaise THEN "loader" ELSE "failed"
    /\ UNCHANGED <<env_vars, config, describer, member_vars, order_vars, static_vars, file_vars,
                   params, disk, paths, processed, written, kwargs, updated, decorator_vars>>

\* the config property of the loader: _load_config()
LoadConfig ==
    /\ pc = "loader"
    /\ updated' = _load_config(loader.value, disk)
    /\ config' = IF updated'.raised = NoRaise THEN updated'.value ELSE config
    /\ loaded' = config'
    /\ pc' = IF updated'.raised = NoRaise THEN "start" ELSE "failed"
    /\ UNCHANGED <<parser, auto_static, describer, member_vars, order_vars, static_vars, file_vars,
                   params, disk, paths, processed, written, loader, kwargs, decorator_vars>>

NextLoader == GetConfigLoader \/ LoadConfig

SpecLoader == InitLoader /\ [][NextLoader]_vars

-----------------------------------------------------------------------------
(* Properties of the choice of the loader *)

\* discovery found more than one file of a default name: the glob of a loader
\* that discovery asked returned more than one match
TooManyFound ==
    \/ Len(disk.ini_files) > 1
    \/ disk.ini_files = <<>> /\ Len(disk.toml_files) > 1

-----------------------------------------------------------------------------
(* decorators.py: the identifier of a decorator expression.  A Python       *)
(* value is a record with its type and the attributes an object of that     *)
(* type has: hasattr(x, a) is a \in DOMAIN x.  A decorator is written as an *)
(* expression; each back-end parses it into nodes of its own classes.       *)

py_str(s) == [type |-> "str", s |-> s]
hasattr(x, a) == a \in DOMAIN x

\* the expressions a decorator is written as
SrcName(n) == [kind |-> "Name", name |-> n]
SrcAttribute(value, attr) == [kind |-> "Attribute", value |-> value, attr |-> attr]
SrcCall(func) == [kind |-> "Call", func |-> func]
SrcSubscript(value) == [kind |-> "Subscript", value |-> value]

\* ast.parse: ast.Name(id), ast.Attribute(value, attr), ast.Call(func, args,
\* keywords), ast.Subscript(value, slice)
RECURSIVE ast_expr(_)
ast_expr(e) ==
    CASE e.kind = "Name" -> [type |-> "Name", id |-> py_str(e.name)]
      [] e.kind = "Attribute" ->
             [type |-> "Attribute", value |-> ast_expr(e.value), attr |-> py_str(e.attr)]
      [] e.kind = "Call" -> [type |-> "Call", func |-> ast_expr(e.func)]
      [] OTHER -> [type |-> "Subscript", value |-> ast_expr(e.value)]

\* libcst.parse_module: libcst.Name(value), libcst.Attribute(value, attr) with
\* attr a Name node, libcst.Call(func, args), libcst.Subscript(value, slice)
RECURSIVE cst_expr(_)
cst_expr(e) ==
    CASE e.kind = "Name" -> [type |-> "Name", value |-> py_str(e.name)]
      [] e.kind = "Attribute" ->
             [type |-> "Attribute", value |-> cst_expr(e.value),
              attr |-> [type |-> "Name", value |-> py_str(e.attr)]]
      [] e.kind = "Call" -> [type |-> "Call", func |-> cst_expr(e.func)]
      [] OTHER -> [type |-> "Subscript", value |-> cst_expr(e.value)]

\* libcst.Decorator(decorator=expression)
cst_decorator(e) == [type |-> "Decorator", decorator |-> cst_expr(e)]

decorator_name_id(d) == Ok(d.id)
decorator_attribute_id(d) == Ok(d.attr)

decorator_call_id(d) ==
    IF hasattr(d.func, "id") THEN Ok(d.func.id) ELSE Raise("AttributeError")

decorator_name_id_cst(d) ==
    IF ~hasattr(d.decorator, "value") THEN Raise("AttributeError") ELSE Ok(d.decorator.value)

decorator_attribute_id_cst(d) ==
    IF ~hasattr(d.decorator, "attr") THEN Raise("AttributeError")
    ELSE Ok(d.decorator.attr.value)

decorator_call_id_cst(d) ==
    IF d.decorator.type = "Call" /\ hasattr(d.decorator.func, "value")
    THEN Ok(d.decorator.func.value)
    ELSE Raise("AttributeError")

\* ast_decorator_description_factory.get(type(decorator))
AST_get_decorator_id(d) ==
    CASE d.type = "Name" -> decorator_name_id(d)
      [] d.type = "Attribute" -> decorator_attribute_id(d)
      [] d.type = "Call" -> decorator_call_id(d)
      [] OTHER -> Raise("TypeError")

\* cst_decorator_description_factory.get(type(decorator.decorator))
CST_get_decorator_id(d) ==
    CASE d.decorator.type = "Name" -> decorator_name_id_cst(d)
      [] d.decorator.type = "Attribute" -> decorator_attribute_id_cst(d)
      [] d.decorator.type = "Call" -> decorator_call_id_cst(d)
      [] OTHER -> Raise("TypeError")

\* the identifier of the decorator written as e, as back-end p resolves it
resolve_decorator(p, e) ==
    IF p = "ast" THEN AST_get_decorator_id(ast_expr(e))
    ELSE CST_get_decorator_id(cst_decorator(e))

-----------------------------------------------------------------------------
(* The identifier of one decorator expression *)

DecoratorNames == {"lru_cache", "csort_group", "staticmethod"}
ModuleNames == {"functools", "abc"}
DottedNames == { SrcAttribute(SrcName(m), n) : m \in ModuleNames, n \in DecoratorNames }
BareNames == { SrcName(n) : n \in DecoratorNames }
Callees ==
    BareNames \cup DottedNames
        \cup { SrcCall(SrcName(n)) : n \in DecoratorNames }
        \cup { SrcSubscript(SrcName(n)) : n \in DecoratorNames }
        \cup { SrcAttribute(SrcAttribute(SrcName("a"), "b"), n) : n \in DecoratorNames }
DecoratorExpressions ==
    BareNames \cup DottedNames \cup { SrcCall(f) : f \in Callees }
        \cup { SrcSubscript(SrcName(n)) : n \in DecoratorNames }

InitDecorator ==
    /\ parser \in {"ast", "cst"}
    /\ config = [order |-> DEFAULT_CSORT_ORDER_PARAMS, use_csort_group |-> TRUE]
    /\ loaded = config
    /\ auto_static = FALSE
    /\ describer = NotBuilt
    /\ method = Pass
    /\ classified = None
    /\ described = None
    /\ NoOrder
    /\ NoStatic
    /\ NoFile
    /\ NoMain
    /\ written_as \in DecoratorExpressions
    /\ decorator_id = None
    /\ NoExtra
    /\ pc = "start"

\* get_decorator_id(decorator) / get_decorator_id_cst(decorator)
GetDecoratorId ==
    /\ pc = "start"
    /\ decorator_id' = resolve_decorator(parser, written_as)
    /\ pc' = "resolved"
    /\ UNCHANGED <<env_vars, config, describer, member_vars, order_vars, static_vars, file_vars,
                   main_vars, written_as, extra_vars>>

NextDecorator == GetDecoratorId

SpecDecorator == InitDecorator /\ [][NextDecorator]_vars

\* the callee of a call decorator has no bare name: it is not a plain name
NoBareCallee == written_as.kind = "Call" /\ written_as.func.kind # "Name"

\* C17: for a call decorator whose callee has no bare name (a dotted callee,
\* say), resolving the identifier raises AttributeError on either back-end; no
\* value, and so no value that is not an identifier string, is returned.
C17_UnnamedCalleeRaises ==
    (pc = "resolved" /\ NoBareCallee) => decorator_id.raised = "AttributeError"

-----------------------------------------------------------------------------
(* main.py: the extra command-line arguments override the configuration.    *)
(* A value of the configuration or of the command line is None or the text  *)
(* of its str(); the configuration is the ordering section and the csort    *)
(* section, each a dict.                                                    *)

NoValue == [isNone |-> TRUE, text |-> ""]
Value(text) == [isNone |-> FALSE, text |-> text]

\* str.replace(old, new) on code points, leftmost occurrences first
RECURSIVE replace_chars(_, _, _)
replace_chars(chars, old, new) ==
    IF Len(chars) < Len(old) THEN chars
    ELSE IF SubSeq(chars, 1, Len(old)) = old
         THEN new \o replace_chars(SubSeq(chars, Len(old) + 1, Len(chars)), old, new)
         ELSE <<chars[1]>> \o replace_chars(Tail(chars), old, new)

str_replace(s, old, new) == str_of(replace_chars(Chars[s], Chars[old], Chars[new]))

\* f"{a}{b}"
str_concat(a, b) == str_of(Chars[a] \o Chars[b])

\* str(n) of a rank
RECURSIVE digits(_)
digits(n) == IF n < 10 THEN <<48 + n>> ELSE digits(n \div 10) \o <<48 + (n % 10)>>

str_int(n) == str_of(digits(n))

\* an argument argparse does not know: "--flag=text" or "--flag"
ExtraArg(flag, value) == [flag |-> flag, value |-> value]

\* the loop of parse_commandline over the unknown arguments
RECURSIVE extra_kwargs(_)
extra_kwargs(args) ==
    IF args = <<>> THEN <<>>
    ELSE dict_set(extra_kwargs(SubSeq(args, 1, Len(args) - 1)),
                  str_replace(args[Len(args)].flag, "--", ""),
                  args[Len(args)].value)

\* param.replace("_", "-")
dashed(param) == str_replace(param, "_", "-")

\* update_config_ordering from the i-th parameter of the ordering section on:
\* args[param.replace("_", "-")] is looked up whichever spelling was found
RECURSIVE ordering_from(_, _, _)
ordering_from(ordering, args, i) ==
    IF i > Len(ordering) THEN Ok(ordering)
    ELSE IF dict_has(args, ordering[i].key) \/ dict_has(args, dashed(ordering[i].key))
         THEN IF ~dict_has(args, dashed(ordering[i].key)) THEN Raise("KeyError")
              ELSE ordering_from(dict_set(ordering, str_replace(ordering[i].key, "-", "_"),
                                          dict_get(args, dashed(ordering[i].key))),
                                 args, i + 1)
         ELSE ordering_from(ordering, args, i + 1)

update_config_ordering(ordering, args) == ordering_from(ordering, args, 1)

\* [param, param.replace("_", "-"), f"n_{param}", f"n-{param.replace('_', '-')}"]
possible_params(param) ==
    <<param, dashed(param), str_concat("n_", param), str_concat("n-", dashed(param))>>

\* re.match(r"^n[-_]", p)
re_match_n(p) == startswith(p, "n-") \/ startswith(p, "n_")

\* str(value) of "(not re.match(...)) if value is None else value"
general_value(p, value) ==
    IF value.isNone THEN Value(IF re_match_n(p) THEN "False" ELSE "True") ELSE value

\* the inner loop of update_config_general for one parameter, from the j-th
\* spelling on
RECURSIVE general_param_from(_, _, _, _)
general_param_from(general, param, args, j) ==
    IF j > Len(possible_params(param)) THEN general
    ELSE IF dict_has(args, possible_params(param)[j])
         THEN general_param_from(
                  dict_set(general, param,
                           general_value(possible_params(param)[j],
                                         dict_get(args, possible_params(param)[j]))),
                  param, args, j + 1)
         ELSE general_param_from(general, param, args, j + 1)

RECURSIVE general_from(_, _, _)
general_from(general, args, i) ==
    IF i > Len(general) THEN general
    ELSE general_from(general_param_from(general, general[i].key, args, 1), args, i + 1)

update_config_general(general, args) == general_from(general, args, 1)

Cfg(ordering, general) == [order |-> ordering, csort |-> general]

general_updated(ordering, general, args) ==
    IF ordering.raised # NoRaise THEN ordering
    ELSE Ok(Cfg(ordering.value, update_config_general(general, args)))

update_config(cfg, args) ==
    general_updated(update_config_ordering(cfg.order, args), cfg.csort, args)

-----------------------------------------------------------------------------
(* The overrides of one command line *)

\* the loaded configuration as main() holds it: every value by its str()
cfg_of(c, static) ==
    Cfg([i \in 1..Len(c.order) |-> Entry(c.order[i].key, Value(str_int(c.order[i].value)))],
        << Entry("use_csort_group", Value(IF c.use_csort_group THEN "True" ELSE "False")),
           Entry("auto_static", Value(IF static THEN "True" ELSE "False")) >>)

OrderingFlags == {"--private-method", "--private_method", "--dunder-method", "--property"}
GeneralFlags ==
    {"--n-auto-static", "--n_auto_static", "--auto-static", "--auto_static",
     "--use_csort_group", "--n-use-csort-group"}
ExtraArgs ==
    { ExtraArg(f, Value(v)) : f \in OrderingFlags, v \in {"3", "12"} }
        \cup { ExtraArg(f, NoValue) : f \in GeneralFlags }
        \cup { ExtraArg(f, Value("False")) : f \in {"--auto_static", "--use_csort_group"} }
        \cup { ExtraArg("--jobs", Value("3")) }
CommandLines == {<<>>} \cup { <<a>> : a \in ExtraArgs } \cup { <<a, b>> : a, b \in ExtraArgs }

InitOverride ==
    /\ parser = "cst"
    /\ config \in { [order |-> o, use_csort_group |-> TRUE] :
                        o \in {DEFAULT_CSORT_ORDER_PARAMS, MockOrder} }
    /\ loaded = config
    /\ auto_static = TRUE
    /\ describer = NotBuilt
    /\ NoMember
    /\ NoOrder
    /\ NoStatic
    /\ NoFile
    /\ NoBatch
    /\ params = Params(NoPath, FALSE, FALSE, NoPath)
    /\ loader = None
    /\ kwargs \in { extra_kwargs(args) : args \in CommandLines }
    /\ updated = None
    /\ NoDecorator
    /\ pc = "loaded"

\* cfg = update_config(cfg, args) of main()
UpdateConfig ==
    /\ pc = "loaded"
    /\ updated' = update_config(cfg_of(config, auto_static), kwargs)
    /\ pc' = IF updated'.raised = NoRaise THEN "updated" ELSE "failed"
    /\ UNCHANGED <<env_vars, config, describer, member_vars, order_vars, static_vars, file_vars,
                   params, disk, paths, processed, written, loader, kwargs, decorator_vars>>

NextOverride == UpdateConfig

SpecOverride == InitOverride /\ [][NextOverride]_vars

-----------------------------------------------------------------------------
(* Properties of the overrides *)

\* the spellings of an ordering category that the command line may use
names_ordering(k, param) == k = param \/ k = dashed(param)

\* the value the command line gives an ordering category of the section, in
\* whichever spelling: the override landed in the configuration
OrderingReplaced ==
    \A i \in 1..Len(cfg_of(config, auto_static).order) :
        \A j \in 1..Len(kwargs) :
            ( /\ names_ordering(kwargs[j].key, config.order[i].key)
              /\ \A l \in 1..Len(kwargs) :
                     l # j => ~names_ordering(kwargs[l].key, config.order[i].key) )
                => /\ updated.raised = NoRaise
                   /\ dict_get(updated.value.order, config.order[i].key) = kwargs[j].value

\* a flag with the n- or n_ prefix and no value sets the parameter to false
NegatedIsFalse ==
    \A param \in {"use_csort_group", "auto_static"} :
        \A j \in 1..Len(kwargs) :
            ( /\ kwargs[j].key \in {possible_params(param)[3], possible_params(param)[4]}
              /\ kwargs[j].value.isNone
              /\ Len(kwargs) = 1 )
                => /\ updated.raised = NoRaise
                   /\ dict_get(updated.value.csort, param) = Value("False")

\* C18: an extra argument that names an ordering category or a boolean
\* parameter in dash or underscore form replaces that entry of the
\* configuration by the given value, a flag with the n- or n_ prefix sets the
\* boolean parameter to false, and no spelling of a recognised name fails.
C18_OverridesEitherSpelling ==
    pc \in {"updated", "failed"}
        => /\ updated.raised = NoRaise
           /\ OrderingReplaced
           /\ NegatedIsFalse

-----------------------------------------------------------------------------
(* Calls of order_decorators, one after the other, against the one table *)

MaxCalls == 2

NamePool ==
    {"classmethod", "staticmethod", "property", "getter", "setter",
     "lru_cache", "wraps"}

InitTable ==
    /\ parser = "cst"
    /\ config = [order |-> DEFAULT_CSORT_ORDER_PARAMS, use_csort_group |-> TRUE]
    /\ loaded = config
    /\ auto_static = FALSE
    /\ describer = NotBuilt
    /\ NoMember
    /\ NoOrder
    /\ NoStatic
    /\ NoFile
    /\ NoMain
    /\ NoDecorator
    /\ pc = "start"

\* order_decorators(decorators)
OrderDecorators ==
    /\ calls < MaxCalls
    /\ \E decorators \in SeqsUpTo(NamePool, MaxDecorators) :
           /\ names' = decorators
           /\ ordered' = order_decorators_from(orders, decorators, 1, <<>>).value
           /\ orders' = order_decorators_from(orders, decorators, 1, <<>>).table
    /\ calls' = calls + 1
    /\ pc' = "sorted"
    /\ UNCHANGED <<env_vars, config, describer, member_vars, order_vars, static_vars, file_vars,
                   main_vars, written_as, decorator_id, text_vars>>

NextTable == OrderDecorators

SpecTable == InitTable /\ [][NextTable]_vars

\* how often a name is in a list
CountOf(n, l) == Cardinality({i \in 1..Len(l) : l[i] = n})

\* C21: order_decorators returns its input names (each as often as given)
\* sorted by canonical index, classmethod 0 to setter 4 and every other name 5,
\* and alphabetically for equal index; the order table holds its five entries
\* after every call, so no call depends on the lookups of an earlier one.
C21_CanonicalDecoratorOrder ==
    pc = "sorted"
        => /\ Len(ordered) = Len(names)
           /\ \A n \in NamePool : CountOf(n, ordered) = CountOf(n, names)
           /\ \A i, j \in 1..Len(ordered) :
                  i < j => ~_get_decorator_order_lt(ordered[j], ordered[i])
           /\ orders = DecoratorDefaultDict

\* a second call, with two names the table does not hold, given out of
\* alphabetical order
C21_Witness ==
    /\ pc = "sorted"
    /\ calls = 2
    /\ names = <<"wraps", "lru_cache">>
    /\ ordered = <<"lru_cache", "wraps">>

-----------------------------------------------------------------------------
(* The text repairs of csort/edge_cases.py; a text is its sequence of code points *)

\* text[i:].startswith(p), "p in text", for a 1-based i
chars_at(text, i, p) ==
    /\ i + Len(p) - 1 <= Len(text)
    /\ SubSeq(text, i, i + Len(p) - 1) = p

chars_contain(text, p) == \E i \in 1..(Len(text) - Len(p) + 1) : chars_at(text, i, p)

\* where the run of newlines that starts at i ends: what "(?:\n*)" consumes
RECURSIVE skip_newlines(_, _)
skip_newlines(text, i) ==
    IF i <= Len(text) /\ text[i] = 10 THEN skip_newlines(text, i + 1) ELSE i

\* re.sub("(?:\n*)" + p, replacement, text): every leftmost match is replaced
RECURSIVE re_sub_newlines(_, _, _, _, _)
re_sub_newlines(text, p, replacement, i, out) ==
    IF i > Len(text) THEN out
    ELSE IF chars_at(text, skip_newlines(text, i), p)
         THEN re_sub_newlines(text, p, replacement, skip_newlines(text, i) + Len(p),
                              out \o replacement)
         ELSE re_sub_newlines(text, p, replacement, i + 1, Append(out, text[i]))

pattern == Chars["if __name__ == '__main__'"]

\* the handler with the replacement "\n" + pattern: no clear line before the guard
handle_if_name_main_close(text) ==
    IF chars_contain(text, pattern)
    THEN re_sub_newlines(text, pattern, Chars["\n"] \o pattern, 1, <<>>)
    ELSE text

handle_if_name_main(text) ==
    IF chars_contain(text, pattern)
    THEN re_sub_newlines(text, pattern, Chars["\n\n\n"] \o pattern, 1, <<>>)
    ELSE text

handle_last_line_white_space(text) ==
    IF ~(Len(text) > 0 /\ text[Len(text)] = 10) THEN text \o Chars["\n"] ELSE text

\* str.splitlines(): no empty last line after a final newline
RECURSIVE splitlines(_, _, _, _)
splitlines(text, i, line, lines) ==
    IF i > Len(text) THEN (IF line = <<>> THEN lines ELSE Append(lines, line))
    ELSE IF text[i] = 10 THEN splitlines(text, i + 1, <<>>, Append(lines, line))
    ELSE splitlines(text, i + 1, Append(line, text[i]), lines)

\* str.strip(): the line without its leading and trailing white space
RECURSIVE lstrip(_)
lstrip(line) ==
    IF line # <<>> /\ Head(line) \in {32, 9} THEN lstrip(Tail(line)) ELSE line

RECURSIVE rstrip(_)
rstrip(line) ==
    IF line # <<>> /\ line[Len(line)] \in {32, 9}
    THEN rstrip(SubSeq(line, 1, Len(line) - 1)) ELSE line

strip(line) == rstrip(lstrip(line))

\* l.strip().startswith("@")
is_decorator_line(line) == chars_at(strip(line), 1, Chars["@"])

\* lines_to_drop (1-based); lines[i + 1] of the last line is an IndexError
lines_to_drop(lines) ==
    {i + 1 : i \in {j \in 1..(Len(lines) - 1) :
                        is_decorator_line(lines[j]) /\ lines[j + 1] = <<>>}}

RECURSIVE lines_kept(_, _, _, _)
lines_kept(lines, drop, i, kept) ==
    IF i > Len(lines) THEN kept
    ELSE lines_kept(lines, drop, i + 1, IF i \in drop THEN kept ELSE Append(kept, lines[i]))

\* "\n".join(lines)
RECURSIVE join_lines(_, _, _)
join_lines(lines, i, out) ==
    IF i > Len(lines) THEN out
    ELSE join_lines(lines, i + 1, IF i = 1 THEN lines[i] ELSE out \o Chars["\n"] \o lines[i])

decorator_spaces_of(lines) ==
    IF Len(lines) > 0 /\ is_decorator_line(lines[Len(lines)])
    THEN Raise("IndexError")
    ELSE Ok(join_lines(lines_kept(lines, lines_to_drop(lines), 1, <<>>), 1, <<>>))

handle_decorator_spaces(text) == decorator_spaces_of(splitlines(text, 1, <<>>, <<>>))

\* handlers, applied in their order
handle_edge_cases(text) ==
    handle_decorator_spaces(handle_last_line_white_space(handle_if_name_main(text)))

MaxPieces == 5

PiecePool ==
    {"\n", "    ", "@wraps", "def run(self):", "if __name__ == '__main__':",
     "if __name__ == \"__main__\":"}

RECURSIVE text_of(_, _, _)
text_of(pieces, i, out) ==
    IF i > Len(pieces) THEN out ELSE text_of(pieces, i + 1, out \o Chars[pieces[i]])

SourceTexts == {text_of(pieces, 1, <<>>) : pieces \in SeqsUpTo(PiecePool, MaxPieces)}

NoDecoratorId == written_as = <<>> /\ decorator_id = None

InitText ==
    /\ parser = "ast"
    /\ config = [order |-> DEFAULT_CSORT_ORDER_PARAMS, use_csort_group |-> TRUE]
    /\ loaded = config
    /\ auto_static = FALSE
    /\ describer = NotBuilt
    /\ NoMember
    /\ NoOrder
    /\ NoStatic
    /\ NoFile
    /\ NoMain
    /\ NoDecoratorId
    /\ NoTable
    /\ source_code \in SourceTexts
    /\ repaired = None
    /\ pc = "start"

\* new_code = handle_edge_cases(new_code)
HandleEdgeCases ==
    /\ pc = "start"
    /\ repaired' = handle_edge_cases(source_code)
    /\ pc' = "repaired"
    /\ UNCHANGED <<env_vars, config, describer, member_vars, order_vars, static_vars, file_vars,
                   main_vars, written_as, decorator_id, table_vars, source_code>>

NextText == HandleEdgeCases

SpecText == InitText /\ [][NextText]_vars

lines_of(text) == splitlines(text, 1, <<>>, <<>>)

\* how many newline characters lie immediately before position i
RECURSIVE newlines_before(_, _)
newlines_before(text, i) ==
    IF i > 1 /\ text[i - 1] = 10 THEN 1 + newlines_before(text, i - 1) ELSE 0

EndsWithOneNewline(text) ==
    /\ Len(text) > 0
    /\ text[Len(text)] = 10
    /\ newlines_before(text, Len(text)) = 0

\* C25: for every input text, the text handle_edge_cases returns ends with exactly one
\* newline character.
C25_EndsWithOneNewline ==
    (pc = "repaired" /\ repaired.raised = NoRaise) => EndsWithOneNewline(repaired.value)

\* no empty line after a decorator line that has a definition further down
NoBlankAfterDecorator(lines) ==
    \A i \in 1..(Len(lines) - 2) :
        ~ /\ is_decorator_line(lines[i])
          /\ lines[i + 1] = <<>>
          /\ \E k \in (i + 2)..Len(lines) : strip(lines[k]) # <<>>

NonEmptyLines(lines) == SelectSeq(lines, LAMBDA l : l # <<>>)

\* C26: handle_edge_cases fails on no input; in the text it returns no blank line lies
\* between a decorator line and the definition below it, however many blank lines the
\* input had there; the other lines of the input are kept, in their order.
C26_DecoratorsAdjacent ==
    pc = "repaired"
        => /\ repaired.raised = NoRaise
           /\ NoBlankAfterDecorator(lines_of(repaired.value))
           /\ ~chars_contain(source_code, pattern)
                  => NonEmptyLines(lines_of(repaired.value)) = NonEmptyLines(lines_of(source_code))

guard_double == Chars["if __name__ == \"__main__\":"]

\* the guard at position i has exactly n blank lines before it
BlankLinesBefore(text, i, n) ==
    newlines_before(text, i) = (IF newlines_before(text, i) = i - 1 THEN n ELSE n + 1)

NoAt(text) == \A i \in 1..Len(text) : text[i] # 64

====
